---------------------------- MODULE Spec2Model ----------------------------
(***************************************************************************)
(* Model of the attendance statistics engine of untis-tools                *)
(* (src/worker/stats.ts): the day-code codec, the lesson/absence           *)
(* reconciler processLessonData, the aggregators calculateAbsenceCounts,   *)
(* calculateTrendChanges, calculateSubjectBreakdown and                    *)
(* calculateDailyTrend and their composition calculateStats; and of the    *)
(* widget layout action saveWidgetLayout (src/unnamed/part_006).           *)
(*                                                                         *)
(* One run of calculateStats reads the clock once: `now` is the instant    *)
(* every new Date() of the run returns.                                    *)
(*                                                                         *)
(* JavaScript values are modelled as follows.                              *)
(*  - A string is a sequence of one-character strings.                     *)
(*  - An object is a record; a property the object does not have is a      *)
(*    field outside the record's DOMAIN (JavaScript's undefined).          *)
(*  - A Date is its instant, counted in half-minutes since the epoch.      *)
(*    Every instant the program compares lies on the whole-minute grid     *)
(*    (midnights in UTC and in a zone whose offset is whole minutes) but   *)
(*    the end of day 23:59:59.999, which lies strictly between the last    *)
(*    minute of its day and the next midnight: it is the odd instant just  *)
(*    before that midnight.  The zone has a fixed offset (no DST change).  *)
(***************************************************************************)
EXTENDS Integers, Sequences, FiniteSets

VARIABLES
  pc,               \* which function of stats.ts has run last
  timetable,        \* processLessonData: the raw lessons (argument)
  absences,         \* processLessonData: the raw absences (argument)
  absencesByDate,   \* processLessonData: the map ISO date -> intervals
  processed,        \* the ledger: ProcessedLesson[]
  now,              \* the wall clock, the instant new Date() returns
  tz,               \* the zone offset of the process, local minus UTC
  absenceCounts,    \* result of calculateAbsenceCounts
  trendCurrent,     \* calculateTrendChanges: current7Days/14/30 (locals)
  trendChanges,     \* result of calculateTrendChanges
  subjectBreakdown, \* result of calculateSubjectBreakdown
  trendArgs,        \* calculateTrendData: its arguments (current, previous)
  trendData,        \* calculateTrendData: its result
  dailyTrend,       \* result of calculateDailyTrend
  statsData,        \* result of calculateStats (UserStatsData)
  previousStatsData, \* the snapshot a caller hands to calculateStats
  dayCode,          \* the codec: a day-code (argument)
  incremented,      \* result of incrementUntisDate(dayCode)
  formatted,        \* result of formatUntisDate(dayCode)
  recoded,          \* dayCode decoded and encoded again
  session,          \* saveWidgetLayout: whether auth() yields a user id
  dbPlan,           \* the plan of the user's row in the database
  dbWidgets,        \* the user's persisted widgets, in order
  saveArg,          \* saveWidgetLayout: the layout submitted (argument)
  savePlan,         \* saveWidgetLayout: userPlan (local)
  saveResult,       \* saveWidgetLayout: the value returned
  returnedWidgets,  \* getUserWidgets: the value returned
  dbCustomerId,     \* paddleCustomerId of the user's row
  dbSubscriptionId, \* paddleSubscriptionId of the user's row
  webhookSecret,    \* whether PADDLE_WEBHOOK_SECRET is set
  webhookPc,        \* the webhook route: where the request in flight is
  request,          \* the webhook route: the request in flight
  webhookUserId,    \* the webhook handlers: userId (local)
  response,         \* the webhook route: the status answered
  sync,             \* syncUser / triggerImmediateSync: the run under way
  cycles,           \* the worker: its runSyncCycle executions
  timer,            \* the worker: whether setInterval has been called
  dbStats,          \* the user's UserStats row: the sync that wrote it
  cache,            \* userStatsCache: the entry of the user's key
  readers,          \* the getUserStats calls
  storedRows        \* the UserStats row each sync path upserts

vars == <<pc, timetable, absences, absencesByDate, processed, now, tz,
          absenceCounts, trendCurrent, trendChanges, subjectBreakdown,
          trendArgs, trendData, dailyTrend, statsData, previousStatsData,
          dayCode, incremented, formatted, recoded,
          session, dbPlan, dbWidgets, saveArg, savePlan, saveResult,
          returnedWidgets, dbCustomerId, dbSubscriptionId, webhookSecret,
          webhookPc, request, webhookUserId, response,
          sync, cycles, timer, dbStats, cache, readers, storedRows>>

\* The variables of the statistics engine and of the day-code codec.
statsVars == <<timetable, absences, absencesByDate, processed, now, tz,
               absenceCounts, trendCurrent, trendChanges, subjectBreakdown,
               trendArgs, trendData, dailyTrend, statsData,
               previousStatsData, dayCode, incremented, formatted, recoded>>

\* The variables of the billing webhook and of getUserWidgets.
accountVars == <<returnedWidgets, dbCustomerId, dbSubscriptionId,
                 webhookSecret, webhookPc, request, webhookUserId, response>>

\* The variables of the sync paths, the worker and the stats cache.
syncVars == <<sync, cycles, timer, dbStats, cache, readers, storedRows>>

\* The variables of the services around the engine and the layout.
serviceVars == <<accountVars, syncVars>>

(***************************************************************************)
(* Sequences and numbers                                                   *)
(***************************************************************************)
Range(s) == {s[i] : i \in DOMAIN s}

\* All sequences over S of length at most n.
SeqsUpTo(S, n) == UNION {[1..k -> S] : k \in 0..n}

Min(a, b) == IF a <= b THEN a ELSE b

Max(a, b) == IF a >= b THEN a ELSE b


(***************************************************************************)
(* Strings: Number.prototype.toString, String.prototype.slice and          *)
(* padStart, parseInt, for non-negative integers and digit strings.        *)
(***************************************************************************)
Digits == <<"0", "1", "2", "3", "4", "5", "6", "7", "8", "9">>

IsDigit(c) == \E i \in 1..10 : Digits[i] = c

DigitVal(c) == (CHOOSE i \in 1..10 : Digits[i] = c) - 1

RECURSIVE toString(_)
toString(n) ==
  IF n < 10 THEN <<Digits[n + 1]>>
  ELSE Append(toString(n \div 10), Digits[(n % 10) + 1])

\* s.slice(a, b) for 0 <= a <= b
Slice(s, a, b) == SubSeq(s, a + 1, Min(b, Len(s)))

RECURSIVE PadStart(_, _, _)
PadStart(s, n, c) == IF Len(s) >= n THEN s ELSE PadStart(<<c>> \o s, n, c)

\* The number of leading digits of s.
RECURSIVE DigitPrefix(_)
DigitPrefix(s) ==
  IF s = <<>> \/ ~IsDigit(Head(s)) THEN 0 ELSE 1 + DigitPrefix(Tail(s))

RECURSIVE DigitsValue(_)
DigitsValue(s) ==
  IF s = <<>> THEN 0
  ELSE 10 * DigitsValue(SubSeq(s, 1, Len(s) - 1)) + DigitVal(s[Len(s)])

\* parseInt(s): the value of the leading digits of s (s begins with a digit
\* wherever the program calls it on a day-code of eight digits).
ParseInt(s) == DigitsValue(SubSeq(s, 1, DigitPrefix(s)))

(***************************************************************************)
(* Calendar: the proleptic Gregorian calendar of JavaScript's Date.        *)
(***************************************************************************)
\* Days from 1970-01-01 to the date (y, m, d); as in new Date(y, m - 1, d),
\* a month outside 1..12 or a day outside the month carries over.
DaysFromCivil(y, m, d) ==
  LET yy  == y + ((m - 1) \div 12)
      mm  == ((m - 1) % 12) + 1
      ya  == IF mm <= 2 THEN yy - 1 ELSE yy
      era == ya \div 400
      yoe == ya - era * 400
      mp  == (mm + 9) % 12
      doy == ((153 * mp + 2) \div 5)
      doe == yoe * 365 + (yoe \div 4) - (yoe \div 100) + doy
  IN  era * 146097 + doe - 719468 + (d - 1)

\* The date (year, month, day) of the day z days after 1970-01-01.
CivilFromDays(z) ==
  LET zz  == z + 719468
      era == zz \div 146097
      doe == zz - era * 146097
      yoe == (doe - (doe \div 1460) + (doe \div 36524) - (doe \div 146096)) \div 365
      doy == doe - (365 * yoe + (yoe \div 4) - (yoe \div 100))
      mp  == (5 * doy + 2) \div 153
      dd  == doy - ((153 * mp + 2) \div 5) + 1
      mm  == IF mp < 10 THEN mp + 3 ELSE mp - 9
      yy  == yoe + era * 400 + (IF mm <= 2 THEN 1 ELSE 0)
  IN  [year |-> yy, month |-> mm, day |-> dd]

\* Half-minutes in a day.
DayUnits == 2 * 24 * 60

\* new Date("YYYY-MM-DD"): a date-only ISO string is midnight UTC.
DateParse(iso) ==
  DaysFromCivil(ParseInt(Slice(iso, 0, 4)), ParseInt(Slice(iso, 5, 7)),
                ParseInt(Slice(iso, 8, 10))) * DayUnits

\* The local calendar day (days since the epoch) of instant t.
LocalDay(t, zone) == (t + 2 * zone) \div DayUnits

\* d.setDate(d.getDate() - days): the same local time, days earlier.
SetDateMinus(t, days) == t - days * DayUnits

\* d.setHours(0, 0, 0, 0): midnight of t's local day.
StartOfLocalDay(t, zone) == LocalDay(t, zone) * DayUnits - 2 * zone

\* d.setHours(23, 59, 59, 999): the last millisecond of t's local day.
EndOfLocalDay(t, zone) == StartOfLocalDay(t, zone) + DayUnits - 1

(***************************************************************************)
(* Day-Code Codec                                                          *)
(***************************************************************************)
\* formatUntisDate: YYYYMMDD -> "YYYY-MM-DD" by slicing the decimal string.
formatUntisDate(dateNumber) ==
  LET dateStr == toString(dateNumber)
  IN  Slice(dateStr, 0, 4) \o <<"-">> \o Slice(dateStr, 4, 6) \o <<"-">>
        \o Slice(dateStr, 6, 8)

\* Lines 23-26: the year, month and day of a day-code, by fixed-width
\* decomposition of its decimal string.
DecodeDayCode(dateNum) ==
  LET dateStr == PadStart(toString(dateNum), 8, "0")
  IN  [year  |-> ParseInt(Slice(dateStr, 0, 4)),
       month |-> ParseInt(Slice(dateStr, 4, 6)),
       day   |-> ParseInt(Slice(dateStr, 6, 8))]

\* Lines 31-35 without padStart: the digits of year, month and day put
\* side by side.
EncodeDayCodeUnpadded(date) ==
  ParseInt(toString(date.year) \o toString(date.month) \o toString(date.day))

\* Lines 31-35: the day-code of a date (year, month, day).
EncodeDayCode(date) ==
  LET newMonth == PadStart(toString(date.month), 2, "0")
      newDay   == PadStart(toString(date.day), 2, "0")
  IN  ParseInt(toString(date.year) \o newMonth \o newDay)

\* incrementUntisDate with the day-code itself incremented.
incrementUntisDateNaive(dateNum) == dateNum + 1

\* incrementUntisDate: the day-code of the next calendar day.
incrementUntisDate(dateNum) ==
  LET c    == DecodeDayCode(dateNum)
      date == CivilFromDays(DaysFromCivil(c.year, c.month, c.day) + 1)
  IN  EncodeDayCode(date)

\* The day-code of the day z days after 1970-01-01.
DayCodeOf(z) ==
  LET c == CivilFromDays(z) IN c.year * 10000 + c.month * 100 + c.day

\* The calendar day (days since the epoch) a valid day-code names.
DayOfCode(code) ==
  DaysFromCivil(code \div 10000, (code \div 100) % 100, code % 100)

\* The calendar day an ISO date string names.
DayOfISO(iso) == DateParse(iso) \div DayUnits

(***************************************************************************)
(* JavaScript objects                                                      *)
(***************************************************************************)
\* !!obj.f for a numeric property: present and not 0.
Truthy(obj, f) == f \in DOMAIN obj /\ obj[f] # 0

\* obj.f || dflt for a numeric property.
OrElse(obj, f, dflt) == IF Truthy(obj, f) THEN obj[f] ELSE dflt

\* map.get(key).push(v), after map.set(key, []) when the key is new.
MapPush(map, key, v) ==
  [k \in DOMAIN map \cup {key} |->
     IF k = key
     THEN (IF key \in DOMAIN map THEN Append(map[key], v) ELSE <<v>>)
     ELSE map[k]]

\* new Map()
EmptyMap == [k \in {} |-> <<>>]

(***************************************************************************)
(* Lesson-Absence Reconciler: processLessonData                            *)
(***************************************************************************)
\* The interval an absence contributes on currentDate (lines 105-124).
\* startDate and endDate are those of the absence, endDate defaulted.
DayInterval(absence, startDate, endDate, currentDate) ==
  IF currentDate = startDate /\ currentDate = endDate
  THEN [startTime |-> OrElse(absence, "startTime", 0),
        endTime   |-> OrElse(absence, "endTime", 2359)]
  ELSE IF currentDate = startDate
  THEN [startTime |-> OrElse(absence, "startTime", 0), endTime |-> 2359]
  ELSE IF currentDate = endDate
  THEN [startTime |-> 0, endTime |-> OrElse(absence, "endTime", 2359)]
  ELSE [startTime |-> 0, endTime |-> 2359]

\* The while loop of lines 97-134 from currentDate on, for the absence at
\* index idx of the input: one interval pushed per day.
RECURSIVE ExpandAbsence(_, _, _, _)
ExpandAbsence(map, absence, idx, currentDate) ==
  LET startDate == absence.startDate
      endDate   == OrElse(absence, "endDate", absence.startDate)
  IN  IF ~(currentDate <= endDate) THEN map
      ELSE LET dateStr == formatUntisDate(currentDate)
               times   == DayInterval(absence, startDate, endDate, currentDate)
               entry   == [startTime |-> times.startTime,
                           endTime   |-> times.endTime,
                           absence   |-> idx]
           IN  ExpandAbsence(MapPush(map, dateStr, entry), absence, idx,
                             incrementUntisDate(currentDate))

\* The loop over the absences with break in place of the continue of line
\* 93: an absence without a start day-code ends the loop.
RECURSIVE ExpandAbsencesBreak(_, _, _)
ExpandAbsencesBreak(map, abs, i) ==
  IF i > Len(abs) THEN map
  ELSE IF ~Truthy(abs[i], "startDate") THEN map
  ELSE ExpandAbsencesBreak(ExpandAbsence(map, abs[i], i, abs[i].startDate),
                           abs, i + 1)

\* The loop over the absences (lines 86-135), from index i on.
RECURSIVE ExpandAbsences(_, _, _)
ExpandAbsences(map, abs, i) ==
  IF i > Len(abs) THEN map
  ELSE IF ~Truthy(abs[i], "startDate") THEN ExpandAbsences(map, abs, i + 1)
  ELSE ExpandAbsences(ExpandAbsence(map, abs[i], i, abs[i].startDate),
                      abs, i + 1)

BuildAbsencesByDate(abs) == ExpandAbsences(EmptyMap, abs, 1)

\* lesson.su?.[0]?.name || lesson.su?.[0]?.longName || 'Unknown'
SubjectOf(lesson) ==
  IF "su" \in DOMAIN lesson /\ Len(lesson.su) >= 1
  THEN LET su == lesson.su[1]
       IN  IF "name" \in DOMAIN su /\ su.name # "" THEN su.name
           ELSE IF "longName" \in DOMAIN su /\ su.longName # ""
           THEN su.longName
           ELSE "Unknown"
  ELSE "Unknown"

\* lesson.code === 'cancelled'
IsCancelledLesson(lesson) ==
  "code" \in DOMAIN lesson /\ lesson.code = "cancelled"

\* The overlap test with both comparisons non-strict.
HasOverlapInclusive(lessonStart, lessonEnd, dayAbsence) ==
  lessonStart <= dayAbsence.endTime /\ lessonEnd >= dayAbsence.startTime

\* The overlap test of line 156.
HasOverlap(lessonStart, lessonEnd, dayAbsence) ==
  lessonStart < dayAbsence.endTime /\ lessonEnd > dayAbsence.startTime

\* Lines 146-163 without the !isCancelled guard of line 150.
IsAbsentLessonUnguarded(lesson, map) ==
  LET dateStr == formatUntisDate(lesson.date)
  IN  /\ dateStr \in DOMAIN map
      /\ LET lessonStart == OrElse(lesson, "startTime", 0)
             lessonEnd   == OrElse(lesson, "endTime", 2359)
         IN  \E k \in DOMAIN map[dateStr] :
                HasOverlap(lessonStart, lessonEnd, map[dateStr][k])

\* Lines 146-163: whether the lesson is absent, given the intervals map.
IsAbsentLesson(lesson, map) ==
  LET dateStr     == formatUntisDate(lesson.date)
      isCancelled == IsCancelledLesson(lesson)
  IN  /\ dateStr \in DOMAIN map
      /\ ~isCancelled
      /\ LET lessonStart == OrElse(lesson, "startTime", 0)
             lessonEnd   == OrElse(lesson, "endTime", 2359)
         IN  \E k \in DOMAIN map[dateStr] :
                HasOverlap(lessonStart, lessonEnd, map[dateStr][k])

\* The ledger entry of one lesson (lines 165-170).
LedgerEntry(lesson, map) ==
  [date        |-> formatUntisDate(lesson.date),
   subject     |-> SubjectOf(lesson),
   isCancelled |-> IsCancelledLesson(lesson),
   isAbsent    |-> IsAbsentLesson(lesson, map)]

\* The loop over the lessons (lines 139-171), from index i on.
RECURSIVE ProcessLessons(_, _, _)
ProcessLessons(tt, map, i) ==
  IF i > Len(tt) THEN <<>>
  ELSE IF ~Truthy(tt[i], "date") THEN ProcessLessons(tt, map, i + 1)
  ELSE <<LedgerEntry(tt[i], map)>> \o ProcessLessons(tt, map, i + 1)

\* processLessonData(timetable, absences).  Its first loop fills a map
\* timetableByDate that nothing reads; it is left out.
processLessonData(tt, abs) == ProcessLessons(tt, BuildAbsencesByDate(abs), 1)

(***************************************************************************)
(* Window Aggregator: calculateAbsenceCounts                               *)
(***************************************************************************)
\* countAbsences with the comparison of line 191 turned round.
countAbsencesFlipped(lessons, t, zone, days) ==
  LET cutoff == StartOfLocalDay(SetDateMinus(t, days), zone)
      Counted(l) == DateParse(l.date) <= cutoff /\ l.isAbsent
  IN  Cardinality({i \in DOMAIN lessons : Counted(lessons[i])})

\* countAbsences(days) of lines 184-193; t is the `now` read at line 182.
countAbsences(lessons, t, zone, days) ==
  LET cutoff == StartOfLocalDay(SetDateMinus(t, days), zone)
      Counted(l) == DateParse(l.date) >= cutoff /\ l.isAbsent
  IN  Cardinality({i \in DOMAIN lessons : Counted(lessons[i])})

\* calculateAbsenceCounts with the all-time count added onto the count of
\* the snapshot the caller hands over.
calculateAbsenceCountsAccumulated(lessons, t, zone) ==
  LET IsAbsent(l) == l.isAbsent
      totalAbsences == Cardinality({i \in DOMAIN lessons : IsAbsent(lessons[i])})
      baseline == IF previousStatsData = <<>> THEN 0
                  ELSE previousStatsData[1].absencesAllTime
  IN  [last7Days  |-> countAbsences(lessons, t, zone, 7),
       last14Days |-> countAbsences(lessons, t, zone, 14),
       last30Days |-> countAbsences(lessons, t, zone, 30),
       allTime    |-> Max(0, baseline + totalAbsences)]

\* calculateAbsenceCounts(lessons) of lines 179-208.
calculateAbsenceCounts(lessons, t, zone) ==
  LET IsAbsent(l) == l.isAbsent
      totalAbsences == Cardinality({i \in DOMAIN lessons : IsAbsent(lessons[i])})
  IN  [last7Days  |-> countAbsences(lessons, t, zone, 7),
       last14Days |-> countAbsences(lessons, t, zone, 14),
       last30Days |-> countAbsences(lessons, t, zone, 30),
       allTime    |-> Max(0, totalAbsences)]

(***************************************************************************)
(* Trend Calculator: calculateTrendChanges                                 *)
(***************************************************************************)
\* The filter of line 229 on the date of a lesson, for the bounds of lines
\* 219-225; t is the `now` read at line 216.
InRange(lessonDate, t, zone, startDaysAgo, endDaysAgo) ==
  LET startDate == StartOfLocalDay(SetDateMinus(t, startDaysAgo), zone)
      endDate   == EndOfLocalDay(SetDateMinus(t, endDaysAgo), zone)
  IN  lessonDate >= endDate /\ lessonDate <= startDate

\* countAbsencesInRange of lines 218-231.
countAbsencesInRange(lessons, t, zone, startDaysAgo, endDaysAgo) ==
  LET Counted(l) ==
        /\ InRange(DateParse(l.date), t, zone, startDaysAgo, endDaysAgo)
        /\ l.isAbsent
  IN  Cardinality({i \in DOMAIN lessons : Counted(lessons[i])})

\* Math.floor in place of Math.round.
MathFloor(num, den) == num \div den

\* Math.round(num / den) for den > 0: the nearest integer, a tie going up.
\* The program rounds the double ((current - previous) / previous) * 100;
\* a tie needs previous to be a multiple of 8, and for the counts of this
\* model (previous = 8) that double is exact.
MathRound(num, den) == (2 * num + den) \div (2 * den)

\* calculateTrendData without the test current > 0 of line 244.
calculateTrendDataNoZero(current, previous) ==
  LET changePercent ==
        IF previous = 0 THEN 100
        ELSE MathRound((current - previous) * 100, previous)
      direction == IF changePercent > 0 THEN "up"
                   ELSE IF changePercent < 0 THEN "down"
                   ELSE "neutral"
  IN  [previousValue |-> previous,
       changePercent |-> changePercent,
       direction     |-> direction]

\* calculateTrendData of lines 243-254.
calculateTrendData(current, previous) ==
  LET changePercent ==
        IF previous = 0 THEN (IF current > 0 THEN 100 ELSE 0)
        ELSE MathRound((current - previous) * 100, previous)
      direction == IF changePercent > 0 THEN "up"
                   ELSE IF changePercent < 0 THEN "down"
                   ELSE "neutral"
  IN  [previousValue |-> previous,
       changePercent |-> changePercent,
       direction     |-> direction]

Windows == {"last7Days", "last14Days", "last30Days"}

\* The arguments (startDaysAgo, endDaysAgo) of the current periods, lines
\* 234-236, and of the previous periods, lines 239-241.
CurrentArgs ==
  [last7Days |-> <<0, 7>>, last14Days |-> <<0, 14>>, last30Days |-> <<0, 30>>]

PreviousArgs ==
  [last7Days |-> <<8, 14>>, last14Days |-> <<15, 28>>,
   last30Days |-> <<31, 60>>]

CurrentPeriods(lessons, t, zone) ==
  [w \in Windows |->
     countAbsencesInRange(lessons, t, zone, CurrentArgs[w][1],
                          CurrentArgs[w][2])]

PreviousPeriods(lessons, t, zone) ==
  [w \in Windows |->
     countAbsencesInRange(lessons, t, zone, PreviousArgs[w][1],
                          PreviousArgs[w][2])]

calculateTrendChanges(lessons, t, zone) ==
  LET cur  == CurrentPeriods(lessons, t, zone)
      prev == PreviousPeriods(lessons, t, zone)
  IN  [w \in Windows |-> calculateTrendData(cur[w], prev[w])]

(***************************************************************************)
(* Subject Aggregator: calculateSubjectBreakdown                           *)
(***************************************************************************)
\* The loop of lines 271-288 with the absent test not chained to the
\* cancelled test by else.
SubjectCountersUnchained(lessons, subject) ==
  LET Of(l)        == l.subject = subject
      Cancelled(l) == Of(l) /\ l.isCancelled
      Absent(l)    == Of(l) /\ l.isAbsent
      Attended(l)  == Of(l) /\ ~l.isAbsent
  IN  [attended  |-> Cardinality({i \in DOMAIN lessons : Attended(lessons[i])}),
       absences  |-> Cardinality({i \in DOMAIN lessons : Absent(lessons[i])}),
       cancelled |-> Cardinality({i \in DOMAIN lessons : Cancelled(lessons[i])}),
       total     |-> Cardinality({i \in DOMAIN lessons : Of(lessons[i])})]

\* The counters of one subject after the loop of lines 271-288.
SubjectCounters(lessons, subject) ==
  LET Of(l)        == l.subject = subject
      Cancelled(l) == Of(l) /\ l.isCancelled
      Absent(l)    == Of(l) /\ ~l.isCancelled /\ l.isAbsent
      Attended(l)  == Of(l) /\ ~l.isCancelled /\ ~l.isAbsent
  IN  [attended  |-> Cardinality({i \in DOMAIN lessons : Attended(lessons[i])}),
       absences  |-> Cardinality({i \in DOMAIN lessons : Absent(lessons[i])}),
       cancelled |-> Cardinality({i \in DOMAIN lessons : Cancelled(lessons[i])}),
       total     |-> Cardinality({i \in DOMAIN lessons : Of(lessons[i])})]

\* Math.round((absences / totalLessons) * 100 * 100) / 100 of lines 294-296,
\* kept as the integer Math.round returns: the rate in hundredths of a
\* percent.
RateHundredths(absent, totalLessons) ==
  IF totalLessons > 0 THEN MathRound(absent * 100 * 100, totalLessons)
  ELSE 0

\* calculateSubjectBreakdown with the rate taken over all lessons of the
\* subject, the cancelled ones included.
calculateSubjectBreakdownOfTotal(lessons) ==
  [subject \in {l.subject : l \in Range(lessons)} |->
     LET stats == SubjectCounters(lessons, subject)
     IN  [attended    |-> stats.attended,
          absences    |-> stats.absences,
          cancelled   |-> stats.cancelled,
          total       |-> stats.total,
          absenceRate |-> RateHundredths(stats.absences, stats.total)]]

\* calculateSubjectBreakdown(lessons) of lines 266-305.
calculateSubjectBreakdown(lessons) ==
  [subject \in {l.subject : l \in Range(lessons)} |->
     LET stats == SubjectCounters(lessons, subject)
     IN  [attended    |-> stats.attended,
          absences    |-> stats.absences,
          cancelled   |-> stats.cancelled,
          total       |-> stats.total,
          absenceRate |-> RateHundredths(stats.absences,
                                         stats.total - stats.cancelled)]]

(***************************************************************************)
(* Trend Series: calculateDailyTrend                                       *)
(***************************************************************************)
\* The UTF-16 code unit of a character of a date string.
CharCode(c) == IF c = "-" THEN 45 ELSE 48 + DigitVal(c)

\* a < b for strings, as Array.prototype.sort compares them: by code
\* units, a proper prefix before the longer string.
RECURSIVE StringLess(_, _)
StringLess(a, b) ==
  IF b = <<>> THEN FALSE
  ELSE IF a = <<>> THEN TRUE
  ELSE IF Head(a) = Head(b) THEN StringLess(Tail(a), Tail(b))
  ELSE CharCode(Head(a)) < CharCode(Head(b))

\* Array.from(allDailyData.keys()): the distinct dates of the ledger in
\* the order of their first appearance (lines 320-323).
RECURSIVE DateKeys(_)
DateKeys(lessons) ==
  IF lessons = <<>> THEN <<>>
  ELSE LET init == DateKeys(SubSeq(lessons, 1, Len(lessons) - 1))
           date == lessons[Len(lessons)].date
       IN  IF date \in Range(init) THEN init ELSE Append(init, date)

\* The keys left in the order of their first appearance.
RECURSIVE UnsortedStrings(_)
UnsortedStrings(keys) ==
  IF keys = <<>> THEN <<>>
  ELSE <<Head(keys)>> \o UnsortedStrings(Tail(keys))

\* keys.sort() of line 337, for distinct strings.
RECURSIVE SortStrings(_)
SortStrings(keys) ==
  IF keys = <<>> THEN <<>>
  ELSE LET rest == SortStrings(Tail(keys))
           k    == Cardinality({i \in DOMAIN rest :
                                  StringLess(rest[i], Head(keys))})
       IN  SubSeq(rest, 1, k) \o <<Head(keys)>>
             \o SubSeq(rest, k + 1, Len(rest))

\* allDailyData.get(date) after the loop of lines 320-334: total counts
\* the lessons that are not cancelled.
DailyData(lessons, date) ==
  LET On(l) == l.date = date
  IN  [total     |-> Cardinality({i \in DOMAIN lessons :
                        On(lessons[i]) /\ ~lessons[i].isCancelled}),
       absences  |-> Cardinality({i \in DOMAIN lessons :
                        On(lessons[i]) /\ ~lessons[i].isCancelled
                          /\ lessons[i].isAbsent}),
       cancelled |-> Cardinality({i \in DOMAIN lessons :
                        On(lessons[i]) /\ lessons[i].isCancelled})]

\* The running totals after the first n dates of allDates (lines 372-376).
RECURSIVE RunningTotals(_, _, _)
RunningTotals(lessons, allDates, n) ==
  IF n = 0 THEN [cumulativeAbsences |-> 0, cumulativeRealLessons |-> 0]
  ELSE LET before == RunningTotals(lessons, allDates, n - 1)
           dayStats == DailyData(lessons, allDates[n])
       IN  [cumulativeAbsences |->
              before.cumulativeAbsences + dayStats.absences,
            cumulativeRealLessons |->
              before.cumulativeRealLessons + dayStats.total]

\* cumulativeData after the loop of lines 372-381.
CumulativeData(lessons, allDates) ==
  [date \in Range(allDates) |->
     RunningTotals(lessons, allDates,
                   CHOOSE n \in DOMAIN allDates : allDates[n] = date)]

\* date.toISOString().split('T')[0]: the UTC calendar date of instant t.
ISODate(t) ==
  LET c == CivilFromDays(t \div DayUnits)
  IN  PadStart(toString(c.year), 4, "0") \o <<"-">>
        \o PadStart(toString(c.month), 2, "0") \o <<"-">>
        \o PadStart(toString(c.day), 2, "0")

\* The first day offset of the loops of lines 342 and 385.
FirstOffset == 29

ZeroPoint(dateStr) ==
  [date |-> dateStr, absenceRate |-> 0, totalLessons |-> 0, absences |-> 0]

\* The loop of lines 342-352, from offset i on.
RECURSIVE EmptyTrend(_, _, _)
EmptyTrend(emptyTrend, t, i) ==
  IF i < 0 THEN emptyTrend
  ELSE EmptyTrend(Append(emptyTrend, ZeroPoint(ISODate(SetDateMinus(t, i)))),
                  t, i - 1)

\* The loop of lines 385-423, from offset i on; absenceRate is kept in
\* hundredths of a percent.
RECURSIVE TrendLoop(_, _, _, _)
TrendLoop(trend, cumulativeData, t, i) ==
  IF i < 0 THEN trend
  ELSE LET dateStr == ISODate(SetDateMinus(t, i))
           point ==
             IF dateStr \in DOMAIN cumulativeData
             THEN LET dateData == cumulativeData[dateStr]
                  IN  [date         |-> dateStr,
                       absenceRate  |->
                         RateHundredths(dateData.cumulativeAbsences,
                                        dateData.cumulativeRealLessons),
                       totalLessons |-> dateData.cumulativeRealLessons,
                       absences     |-> dateData.cumulativeAbsences]
             ELSE IF Len(trend) > 0
             THEN LET lastKnown == trend[Len(trend)]
                  IN  [date         |-> dateStr,
                       absenceRate  |-> lastKnown.absenceRate,
                       totalLessons |-> lastKnown.totalLessons,
                       absences     |-> lastKnown.absences]
             ELSE ZeroPoint(dateStr)
       IN  TrendLoop(Append(trend, point), cumulativeData, t, i - 1)

\* calculateDailyTrend(lessons); t is the instant new Date() returns.
calculateDailyTrend(lessons, t) ==
  LET allDates == SortStrings(DateKeys(lessons))
  IN  IF Len(allDates) = 0 THEN EmptyTrend(<<>>, t, FirstOffset)
      ELSE TrendLoop(<<>>, CumulativeData(lessons, allDates), t, FirstOffset)

(***************************************************************************)
(* Widget layouts: validateWidgetLayout and saveWidgetLayout               *)
(* (src/unnamed/part_006).  A widget is modelled by its type.              *)
(***************************************************************************)
\* const FREE_MAX_WIDGETS = 5
FREE_MAX_WIDGETS == 5

\* WIDGET_DEFINITIONS[type].isPremium of src/types/widget.ts
IsPremiumType ==
  [KPI_7DAYS |-> FALSE, KPI_14DAYS |-> FALSE, KPI_30DAYS |-> FALSE,
   KPI_ALLTIME |-> FALSE, ABSENCE_BAR |-> FALSE, ABSENCE_TREND |-> FALSE,
   SUBJECT_BREAKDOWN |-> FALSE, ABSENCE_RECOMMENDER |-> TRUE]

getPremiumWidgetTypes == {type \in DOMAIN IsPremiumType : IsPremiumType[type]}

\* validateWidgetLayout without the limit on the number of widgets.
validateWidgetLayoutNoLimit(widgets, userPlan) ==
  IF userPlan = "FREE"
       /\ \E i \in DOMAIN widgets : widgets[i] \in getPremiumWidgetTypes
  THEN [valid |-> FALSE, error |-> "Some widgets require Premium"]
  ELSE [valid |-> TRUE]

\* validateWidgetLayout(widgets, userPlan)
validateWidgetLayout(widgets, userPlan) ==
  IF userPlan = "FREE" /\ Len(widgets) > FREE_MAX_WIDGETS
  THEN [valid |-> FALSE, error |-> "Free plan is limited to 5 widgets"]
  ELSE IF userPlan = "FREE"
            /\ \E i \in DOMAIN widgets : widgets[i] \in getPremiumWidgetTypes
  THEN [valid |-> FALSE, error |-> "Some widgets require Premium"]
  ELSE [valid |-> TRUE]

(***************************************************************************)
(* Bounds and input domains                                                *)
(***************************************************************************)
\* Longest ledger handed to the window aggregator and the trend calculator.
MaxWindowLedger == 2

\* Longest ledger handed to the subject aggregator.
MaxSubjectLedger == 4

\* Largest absence count handed to calculateTrendData.
MaxCount == 12

\* Calendar days the reconciler's lessons and absences are drawn from.
MaxDays == 3

\* Most lessons of a free-form timetable, most absences of one input.
MaxLessons == 1

MaxAbsences == 2

\* The day the clock shows in UTC in the window and trend checks.
BaseDay == DaysFromCivil(2025, 3, 10)

\* Clock readings: 00:30 and 23:30 UTC of BaseDay.
NowChoices ==
  <<BaseDay * DayUnits + 2 * 30, BaseDay * DayUnits + 2 * (23 * 60 + 30)>>

\* Zone offsets in minutes: UTC, UTC+1, UTC-1.
ZoneChoices == <<0, 60, -60>>

\* Ledger dates around the starts of the 7, 14 and 30 day windows, BaseDay
\* and the day after it.
WindowOffsets == {1, 0, -6, -7, -8, -13, -14, -15, -29, -30, -31}

\* Attended and absent lessons on those dates, and a cancelled lesson.
WindowEntries ==
  [date        : {formatUntisDate(DayCodeOf(BaseDay + k)) : k \in WindowOffsets},
   subject     : {"Math"},
   isCancelled : {FALSE},
   isAbsent    : BOOLEAN]
  \cup
  {[date |-> formatUntisDate(DayCodeOf(BaseDay)), subject |-> "Math",
    isCancelled |-> TRUE, isAbsent |-> FALSE]}

SubjectEntries ==
  [date        : {formatUntisDate(DayCodeOf(BaseDay))},
   subject     : {"Math", "Physics", "Unknown"},
   isCancelled : BOOLEAN,
   isAbsent    : BOOLEAN]

\* The first day of the reconciler's calendar window: a month's last day.
FirstDay == DaysFromCivil(2025, 1, 31)

ReconcileDays == {DayCodeOf(FirstDay + k) : k \in 0..(MaxDays - 1)}

\* Lesson periods (HHMM): two adjacent periods and the double period.
LessonTimes == {<<800, 845>>, <<845, 930>>, <<800, 930>>}

\* Times of day (HHMM) of an absence: midnight and the period boundaries.
AbsenceTimes == {0, 845, 930}

Math == <<[name |-> "Math"]>>

LessonsOn(d) ==
  {[date |-> d, startTime |-> t[1], endTime |-> t[2], su |-> Math]
     : t \in LessonTimes}
  \cup
  {[date |-> d, startTime |-> t[1], endTime |-> t[2], su |-> Math,
    code |-> "cancelled"] : t \in LessonTimes}

\* Lessons with an unnamed subject, a subject with a long name only, and
\* without a date.
OddLessons ==
  {[date |-> DayCodeOf(FirstDay), startTime |-> 800, endTime |-> 845],
   [date |-> DayCodeOf(FirstDay), startTime |-> 800, endTime |-> 845,
    su |-> <<[longName |-> "Mathematics"]>>],
   [startTime |-> 800, endTime |-> 845, su |-> Math]}

LessonRecords == (UNION {LessonsOn(d) : d \in ReconcileDays}) \cup OddLessons

\* Absences that begin before they end: on one day, or over several days
\* with any times of day.
TimedAbsences ==
  {a \in [startDate : ReconcileDays, endDate : ReconcileDays,
          startTime : AbsenceTimes, endTime : AbsenceTimes] :
     \/ a.startDate < a.endDate
     \/ a.startDate = a.endDate /\ a.startTime < a.endTime}

\* Absences without an end day-code, without times of day, with the end
\* day-code before the start day-code, and without a start day-code.
OddAbsences ==
  {a \in [startDate : ReconcileDays,
          startTime : AbsenceTimes, endTime : AbsenceTimes] :
     a.startTime < a.endTime}
  \cup {a \in [startDate : ReconcileDays, endDate : ReconcileDays] :
          a.startDate <= a.endDate}
  \cup {a \in [startDate : ReconcileDays, endDate : ReconcileDays,
               startTime : {845}, endTime : {930}] : a.startDate > a.endDate}
  \cup [endDate : ReconcileDays, startTime : {845}, endTime : {930}]

AbsenceRecords == TimedAbsences \cup OddAbsences

\* Timetables with one lesson on each day of the window, in day order.
DailyTimetables ==
  {tt \in [1..MaxDays -> UNION {LessonsOn(d) : d \in ReconcileDays}] :
     \A i \in 1..MaxDays : tt[i].date = DayCodeOf(FirstDay + i - 1)}

\* Records for inputs that mix well-formed and malformed records: lessons
\* with and without a date, absences with and without a start day-code.
MixedLessons ==
  {[date |-> DayCodeOf(FirstDay), startTime |-> 800, endTime |-> 845,
    su |-> Math],
   [date |-> DayCodeOf(FirstDay + 1), startTime |-> 845, endTime |-> 930,
    su |-> <<[longName |-> "Mathematics"]>>],
   [startTime |-> 800, endTime |-> 845, su |-> Math],
   [startTime |-> 845, endTime |-> 930]}

MixedAbsences ==
  {[startDate |-> DayCodeOf(FirstDay), endDate |-> DayCodeOf(FirstDay),
    startTime |-> 0, endTime |-> 845],
   [startDate |-> DayCodeOf(FirstDay), endDate |-> DayCodeOf(FirstDay + 1),
    startTime |-> 845, endTime |-> 930],
   [endDate |-> DayCodeOf(FirstDay + 1), startTime |-> 0, endTime |-> 930],
   [startTime |-> 0, endTime |-> 930]}

\* Longest ledger handed to calculateDailyTrend.
MaxTrendLedger == 3

\* Ledger dates before the 30 days of the trend series, on its first two
\* days, inside it, on BaseDay and on the day after.
TrendOffsets == {-30, -29, -28, -2, 0, 1}

\* Attended, absent and cancelled lessons on those dates.
TrendEntries ==
  {[date |-> formatUntisDate(DayCodeOf(BaseDay + k)), subject |-> "Math",
    isCancelled |-> f[1], isAbsent |-> f[2]] :
     k \in TrendOffsets, f \in {<<FALSE, FALSE>>, <<FALSE, TRUE>>,
                                <<TRUE, FALSE>>}}

\* Most lessons of a timetable handed to calculateStats.
MaxStatsLessons == 2

\* Days of the lessons handed to calculateStats: BaseDay, the day before
\* and a day of the week before.
StatsDays == {DayCodeOf(BaseDay + k) : k \in {-8, -1, 0}}

\* A lesson that takes place and a cancelled one on each of those days.
StatsLessons ==
  {[date |-> d, startTime |-> 800, endTime |-> 845, su |-> Math]
     : d \in StatsDays}
  \cup
  {[date |-> d, startTime |-> 800, endTime |-> 845, su |-> Math,
    code |-> "cancelled"] : d \in StatsDays}

\* An absence for a whole day of the week before, one for the morning of
\* BaseDay and one from the day before to the evening of BaseDay.
StatsAbsences ==
  {[startDate |-> DayCodeOf(BaseDay - 8), endDate |-> DayCodeOf(BaseDay - 8),
    startTime |-> 0, endTime |-> 2359],
   [startDate |-> DayCodeOf(BaseDay), endDate |-> DayCodeOf(BaseDay),
    startTime |-> 800, endTime |-> 930],
   [startDate |-> DayCodeOf(BaseDay - 1), endDate |-> DayCodeOf(BaseDay),
    startTime |-> 800, endTime |-> 2000]}

\* What a caller hands over as previousStatsData: nothing (no row yet) or
\* the stored row, here with an all-time count of 5.
PreviousChoices == << <<>>, <<[absencesAllTime |-> 5]>> >>

\* The Gregorian calendar by its rules: leap years and month lengths.
IsLeapYear(y) == (y % 4 = 0 /\ y % 100 # 0) \/ y % 400 = 0

DaysInMonth(y, m) ==
  IF m = 2 THEN (IF IsLeapYear(y) THEN 29 ELSE 28)
  ELSE IF m \in {4, 6, 9, 11} THEN 30
  ELSE 31

\* Years of the day-codes handed to the codec: the first and the last
\* year of four digits, a century that is no leap year, one that is, a
\* leap year and its neighbours.
CodecYears == {1000, 1900, 2000, 2023, 2024, 2025, 9999}

\* The valid day-codes of those years.
DayCodes ==
  UNION {UNION {{y * 10000 + m * 100 + d : d \in 1..DaysInMonth(y, m)}
                  : m \in 1..12} : y \in CodecYears}

\* Most widgets of a submitted layout.
MaxWidgets == 6

\* Widget types of the submitted layouts: two free ones and the premium one.
LayoutTypes == {"KPI_7DAYS", "ABSENCE_BAR", "ABSENCE_RECOMMENDER"}

\* What the user has persisted before the call: nothing, or two widgets.
PersistedChoices == << <<>>, <<"KPI_7DAYS", "KPI_14DAYS">> >>

\* The plan of the user's row: FREE, PREMIUM, or "none" when there is no
\* row (user?.plan is undefined).
PlanChoices == <<"FREE", "PREMIUM", "none">>

\* The value of a variable a specification does not use.
Unused == <<>>

\* The sync paths' variables in a specification that does not use them.
SyncUnused ==
  /\ sync = Unused
  /\ cycles = Unused
  /\ timer = FALSE
  /\ dbStats = 0
  /\ cache = 0
  /\ readers = Unused
  /\ storedRows = Unused

\* The services' variables in a specification that does not use them.
ServiceUnused ==
  /\ SyncUnused
  /\ returnedWidgets = Unused
  /\ dbCustomerId = "null"
  /\ dbSubscriptionId = "null"
  /\ webhookSecret = FALSE
  /\ webhookPc = "idle"
  /\ request = Unused
  /\ webhookUserId = "none"
  /\ response = 0

(***************************************************************************)
(* Operations                                                              *)
(***************************************************************************)
\* processLessonData(timetable, absences)
RunProcessLessonData ==
  /\ pc = "processLessonData"
  /\ absencesByDate' = BuildAbsencesByDate(absences)
  /\ processed' = processLessonData(timetable, absences)
  /\ pc' = "calculateAbsenceCounts"
  /\ UNCHANGED serviceVars
  /\ UNCHANGED <<timetable, absences, now, tz, absenceCounts, trendCurrent,
                 trendChanges, subjectBreakdown, trendArgs, trendData,
                 dailyTrend, statsData, previousStatsData,
                 dayCode, incremented, formatted, recoded,
                 session, dbPlan, dbWidgets, saveArg, savePlan, saveResult>>

\* calculateAbsenceCounts(processedLessons)
RunCalculateAbsenceCounts ==
  /\ pc = "calculateAbsenceCounts"
  /\ absenceCounts' = calculateAbsenceCounts(processed, now, tz)
  /\ pc' = "calculateTrendChanges"
  /\ UNCHANGED serviceVars
  /\ UNCHANGED <<timetable, absences, absencesByDate, processed, now, tz,
                 trendCurrent, trendChanges, subjectBreakdown, trendArgs,
                 trendData,
                 dailyTrend, statsData, previousStatsData,
                 dayCode, incremented, formatted, recoded,
                 session, dbPlan, dbWidgets, saveArg, savePlan, saveResult>>

\* calculateTrendChanges(processedLessons)
RunCalculateTrendChanges ==
  /\ pc = "calculateTrendChanges"
  /\ trendCurrent' = CurrentPeriods(processed, now, tz)
  /\ trendChanges' = calculateTrendChanges(processed, now, tz)
  /\ pc' = "calculateSubjectBreakdown"
  /\ UNCHANGED serviceVars
  /\ UNCHANGED <<timetable, absences, absencesByDate, processed, now, tz,
                 absenceCounts, subjectBreakdown, trendArgs, trendData,
                 dailyTrend, statsData, previousStatsData,
                 dayCode, incremented, formatted, recoded,
                 session, dbPlan, dbWidgets, saveArg, savePlan, saveResult>>

\* calculateSubjectBreakdown(processedLessons)
RunCalculateSubjectBreakdown ==
  /\ pc = "calculateSubjectBreakdown"
  /\ subjectBreakdown' = calculateSubjectBreakdown(processed)
  /\ pc' = "calculateDailyTrend"
  /\ UNCHANGED serviceVars
  /\ UNCHANGED <<timetable, absences, absencesByDate, processed, now, tz,
                 absenceCounts, trendCurrent, trendChanges, trendArgs,
                 trendData,
                 dailyTrend, statsData, previousStatsData,
                 dayCode, incremented, formatted, recoded,
                 session, dbPlan, dbWidgets, saveArg, savePlan, saveResult>>

\* calculateTrendData(current, previous)
RunCalculateTrendData ==
  /\ pc = "calculateTrendData"
  /\ trendData' = calculateTrendData(trendArgs.current, trendArgs.previous)
  /\ pc' = "done"
  /\ UNCHANGED serviceVars
  /\ UNCHANGED <<timetable, absences, absencesByDate, processed, now, tz,
                 absenceCounts, trendCurrent, trendChanges, subjectBreakdown,
                 trendArgs,
                 dailyTrend, statsData, previousStatsData,
                 dayCode, incremented, formatted, recoded,
                 session, dbPlan, dbWidgets, saveArg, savePlan, saveResult>>

\* calculateDailyTrend(processedLessons)
RunCalculateDailyTrend ==
  /\ pc = "calculateDailyTrend"
  /\ dailyTrend' = calculateDailyTrend(processed, now)
  /\ pc' = "return"
  /\ UNCHANGED serviceVars
  /\ UNCHANGED <<timetable, absences, absencesByDate, processed, now, tz,
                 absenceCounts, trendCurrent, trendChanges, subjectBreakdown,
                 trendArgs, trendData, statsData, previousStatsData,
                 dayCode, incremented, formatted, recoded,
                 session, dbPlan, dbWidgets, saveArg, savePlan, saveResult>>

\* The rest of calculateStats: totalRealLessons, totalAbsences and
\* absenceRate (lines 442-450) and the returned object (lines 452-461);
\* lastUpdated is kept as the instant, absenceRate in hundredths of a
\* percent.  previousStatsData, the third argument of the callers, is not
\* a parameter of the function.
RunCalculateStatsReturn ==
  /\ pc = "return"
  /\ LET totalRealLessons ==
           Cardinality({i \in DOMAIN processed : ~processed[i].isCancelled})
         totalAbsences == absenceCounts.allTime
     IN  statsData' =
           [absenceCounts    |-> absenceCounts,
            trendChanges     |-> trendChanges,
            subjectBreakdown |-> subjectBreakdown,
            dailyTrend       |-> dailyTrend,
            lastUpdated      |-> now,
            absenceRate      |-> RateHundredths(totalAbsences,
                                                totalRealLessons),
            totalRealLessons |-> totalRealLessons,
            totalAbsences    |-> totalAbsences]
  /\ pc' = "returned"
  /\ UNCHANGED serviceVars
  /\ UNCHANGED <<timetable, absences, absencesByDate, processed, now, tz,
                 absenceCounts, trendCurrent, trendChanges, subjectBreakdown,
                 trendArgs, trendData, dailyTrend, previousStatsData,
                 dayCode, incremented, formatted, recoded,
                 session, dbPlan, dbWidgets, saveArg, savePlan, saveResult>>

\* incrementUntisDate(dayCode)
RunIncrementUntisDate ==
  /\ pc = "incrementUntisDate"
  /\ incremented' = incrementUntisDate(dayCode)
  /\ pc' = "formatUntisDate"
  /\ UNCHANGED serviceVars
  /\ UNCHANGED <<timetable, absences, absencesByDate, processed, now, tz,
                 absenceCounts, trendCurrent, trendChanges, subjectBreakdown,
                 trendArgs, trendData, dailyTrend, statsData,
                 previousStatsData, dayCode, formatted, recoded,
                 session, dbPlan, dbWidgets, saveArg, savePlan, saveResult>>

\* formatUntisDate(dayCode)
RunFormatUntisDate ==
  /\ pc = "formatUntisDate"
  /\ formatted' = formatUntisDate(dayCode)
  /\ pc' = "recode"
  /\ UNCHANGED serviceVars
  /\ UNCHANGED <<timetable, absences, absencesByDate, processed, now, tz,
                 absenceCounts, trendCurrent, trendChanges, subjectBreakdown,
                 trendArgs, trendData, dailyTrend, statsData,
                 previousStatsData, dayCode, incremented, recoded,
                 session, dbPlan, dbWidgets, saveArg, savePlan, saveResult>>

\* The decoding of lines 23-26 followed by the encoding of lines 31-35.
RunRecode ==
  /\ pc = "recode"
  /\ recoded' = EncodeDayCode(DecodeDayCode(dayCode))
  /\ pc' = "codecDone"
  /\ UNCHANGED serviceVars
  /\ UNCHANGED <<timetable, absences, absencesByDate, processed, now, tz,
                 absenceCounts, trendCurrent, trendChanges, subjectBreakdown,
                 trendArgs, trendData, dailyTrend, statsData,
                 previousStatsData, dayCode, incremented, formatted,
                 session, dbPlan, dbWidgets, saveArg, savePlan, saveResult>>

\* saveWidgetLayout, lines 193-196: the session.
SaveAuth ==
  /\ pc = "saveWidgetLayout"
  /\ IF ~session
     THEN /\ saveResult' = [success |-> FALSE, error |-> "Not authenticated"]
          /\ pc' = "saveReturned"
     ELSE /\ saveResult' = saveResult
          /\ pc' = "findUnique"
  /\ UNCHANGED serviceVars
  /\ UNCHANGED <<timetable, absences, absencesByDate, processed, now, tz,
                 absenceCounts, trendCurrent, trendChanges, subjectBreakdown,
                 trendArgs, trendData, dailyTrend, statsData,
                 previousStatsData, dayCode, incremented, formatted, recoded,
                 session, dbPlan, saveArg, dbWidgets, savePlan>>

\* Lines 200-205: the user's plan is read from the database.
SaveFindUser ==
  /\ pc = "findUnique"
  /\ savePlan' = IF dbPlan = "none" THEN "FREE" ELSE dbPlan
  /\ pc' = "validateWidgetLayout"
  /\ UNCHANGED serviceVars
  /\ UNCHANGED <<timetable, absences, absencesByDate, processed, now, tz,
                 absenceCounts, trendCurrent, trendChanges, subjectBreakdown,
                 trendArgs, trendData, dailyTrend, statsData,
                 previousStatsData, dayCode, incremented, formatted, recoded,
                 session, dbPlan, saveArg, dbWidgets, saveResult>>

\* Lines 200-203 and 242-245: the query fails and the error is caught.
SaveFindUserFails ==
  /\ pc = "findUnique"
  /\ saveResult' = [success |-> FALSE, error |-> "Failed to save layout"]
  /\ pc' = "saveReturned"
  /\ UNCHANGED serviceVars
  /\ UNCHANGED <<timetable, absences, absencesByDate, processed, now, tz,
                 absenceCounts, trendCurrent, trendChanges, subjectBreakdown,
                 trendArgs, trendData, dailyTrend, statsData,
                 previousStatsData, dayCode, incremented, formatted, recoded,
                 session, dbPlan, saveArg, dbWidgets, savePlan>>

\* Lines 207-211: the layout is validated against the plan read.
SaveValidate ==
  /\ pc = "validateWidgetLayout"
  /\ LET validation == validateWidgetLayout(saveArg, savePlan)
     IN  IF ~validation.valid
         THEN /\ saveResult' = [success |-> FALSE, error |-> validation.error]
              /\ pc' = "saveReturned"
         ELSE /\ saveResult' = saveResult
              /\ pc' = "transaction"
  /\ UNCHANGED serviceVars
  /\ UNCHANGED <<timetable, absences, absencesByDate, processed, now, tz,
                 absenceCounts, trendCurrent, trendChanges, subjectBreakdown,
                 trendArgs, trendData, dailyTrend, statsData,
                 previousStatsData, dayCode, incremented, formatted, recoded,
                 session, dbPlan, saveArg, dbWidgets, savePlan>>

\* Lines 215-241: the transaction deletes the user's widgets and creates
\* the submitted ones in order.
SaveTransaction ==
  /\ pc = "transaction"
  /\ dbWidgets' = saveArg
  /\ saveResult' = [success |-> TRUE]
  /\ pc' = "saveReturned"
  /\ UNCHANGED serviceVars
  /\ UNCHANGED <<timetable, absences, absencesByDate, processed, now, tz,
                 absenceCounts, trendCurrent, trendChanges, subjectBreakdown,
                 trendArgs, trendData, dailyTrend, statsData,
                 previousStatsData, dayCode, incremented, formatted, recoded,
                 session, dbPlan, saveArg, savePlan>>

\* Lines 215-239 and 242-245: the transaction fails and is rolled back.
SaveTransactionFails ==
  /\ pc = "transaction"
  /\ saveResult' = [success |-> FALSE, error |-> "Failed to save layout"]
  /\ pc' = "saveReturned"
  /\ UNCHANGED serviceVars
  /\ UNCHANGED <<timetable, absences, absencesByDate, processed, now, tz,
                 absenceCounts, trendCurrent, trendChanges, subjectBreakdown,
                 trendArgs, trendData, dailyTrend, statsData,
                 previousStatsData, dayCode, incremented, formatted, recoded,
                 session, dbPlan, saveArg, dbWidgets, savePlan>>

(***************************************************************************)
(* Specifications                                                          *)
(***************************************************************************)
\* The reconciler on free-form inputs, on one-lesson-a-day timetables and
\* on inputs that mix well-formed and malformed records.
Init ==
  /\ pc = "processLessonData"
  /\ \/ /\ timetable \in SeqsUpTo(LessonRecords, MaxLessons)
        /\ absences \in SeqsUpTo(AbsenceRecords, MaxAbsences)
     \/ /\ timetable \in DailyTimetables
        /\ absences \in SeqsUpTo(AbsenceRecords, 1)
     \/ /\ timetable \in SeqsUpTo(MixedLessons, MaxLessons + 2)
        /\ absences \in SeqsUpTo(MixedAbsences, MaxAbsences)
  /\ absencesByDate = Unused
  /\ processed = Unused
  /\ now = 0
  /\ tz = 0
  /\ absenceCounts = Unused
  /\ trendCurrent = Unused
  /\ trendChanges = Unused
  /\ subjectBreakdown = Unused
  /\ trendArgs = Unused
  /\ trendData = Unused
  /\ dailyTrend = Unused
  /\ statsData = Unused
  /\ dayCode = 0
  /\ incremented = Unused
  /\ formatted = Unused
  /\ recoded = Unused
  /\ session = FALSE
  /\ dbPlan = "FREE"
  /\ dbWidgets = Unused
  /\ saveArg = Unused
  /\ savePlan = Unused
  /\ saveResult = Unused
  /\ previousStatsData = Unused
  /\ ServiceUnused

Next == RunProcessLessonData

Spec == Init /\ [][Next]_vars

\* The window aggregator and the trend calculator on a ledger.
InitWindows ==
  /\ pc = "calculateAbsenceCounts"
  /\ \E z \in DOMAIN ZoneChoices : tz = ZoneChoices[z]
  /\ \E n \in DOMAIN NowChoices : now = NowChoices[n]
  /\ timetable = Unused
  /\ absences = Unused
  /\ absencesByDate = Unused
  /\ processed \in SeqsUpTo(WindowEntries, MaxWindowLedger)
  /\ absenceCounts = Unused
  /\ trendCurrent = Unused
  /\ trendChanges = Unused
  /\ subjectBreakdown = Unused
  /\ trendArgs = Unused
  /\ trendData = Unused
  /\ dailyTrend = Unused
  /\ statsData = Unused
  /\ dayCode = 0
  /\ incremented = Unused
  /\ formatted = Unused
  /\ recoded = Unused
  /\ session = FALSE
  /\ dbPlan = "FREE"
  /\ dbWidgets = Unused
  /\ saveArg = Unused
  /\ savePlan = Unused
  /\ saveResult = Unused
  /\ previousStatsData = Unused
  /\ ServiceUnused

NextWindows == RunCalculateAbsenceCounts \/ RunCalculateTrendChanges

SpecWindows == InitWindows /\ [][NextWindows]_vars

\* The subject aggregator on a ledger.
InitSubjects ==
  /\ pc = "calculateSubjectBreakdown"
  /\ timetable = Unused
  /\ absences = Unused
  /\ absencesByDate = Unused
  /\ processed \in SeqsUpTo(SubjectEntries, MaxSubjectLedger)
  /\ now = 0
  /\ tz = 0
  /\ absenceCounts = Unused
  /\ trendCurrent = Unused
  /\ trendChanges = Unused
  /\ subjectBreakdown = Unused
  /\ trendArgs = Unused
  /\ trendData = Unused
  /\ dailyTrend = Unused
  /\ statsData = Unused
  /\ dayCode = 0
  /\ incremented = Unused
  /\ formatted = Unused
  /\ recoded = Unused
  /\ session = FALSE
  /\ dbPlan = "FREE"
  /\ dbWidgets = Unused
  /\ saveArg = Unused
  /\ savePlan = Unused
  /\ saveResult = Unused
  /\ previousStatsData = Unused
  /\ ServiceUnused

NextSubjects == RunCalculateSubjectBreakdown

SpecSubjects == InitSubjects /\ [][NextSubjects]_vars

\* calculateTrendData on a pair of counts.
InitTrendData ==
  /\ pc = "calculateTrendData"
  /\ timetable = Unused
  /\ absences = Unused
  /\ absencesByDate = Unused
  /\ processed = Unused
  /\ now = 0
  /\ tz = 0
  /\ absenceCounts = Unused
  /\ trendCurrent = Unused
  /\ trendChanges = Unused
  /\ subjectBreakdown = Unused
  /\ trendArgs \in [current : 0..MaxCount, previous : 0..MaxCount]
  /\ trendData = Unused
  /\ dailyTrend = Unused
  /\ statsData = Unused
  /\ dayCode = 0
  /\ incremented = Unused
  /\ formatted = Unused
  /\ recoded = Unused
  /\ session = FALSE
  /\ dbPlan = "FREE"
  /\ dbWidgets = Unused
  /\ saveArg = Unused
  /\ savePlan = Unused
  /\ saveResult = Unused
  /\ previousStatsData = Unused
  /\ ServiceUnused

NextTrendData == RunCalculateTrendData

SpecTrendData == InitTrendData /\ [][NextTrendData]_vars

\* calculateDailyTrend on a ledger.
InitDailyTrend ==
  /\ pc = "calculateDailyTrend"
  /\ \E z \in DOMAIN ZoneChoices : tz = ZoneChoices[z]
  /\ \E n \in DOMAIN NowChoices : now = NowChoices[n]
  /\ timetable = Unused
  /\ absences = Unused
  /\ absencesByDate = Unused
  /\ processed \in SeqsUpTo(TrendEntries, MaxTrendLedger)
  /\ absenceCounts = Unused
  /\ trendCurrent = Unused
  /\ trendChanges = Unused
  /\ subjectBreakdown = Unused
  /\ trendArgs = Unused
  /\ trendData = Unused
  /\ dailyTrend = Unused
  /\ statsData = Unused
  /\ dayCode = 0
  /\ incremented = Unused
  /\ formatted = Unused
  /\ recoded = Unused
  /\ session = FALSE
  /\ dbPlan = "FREE"
  /\ dbWidgets = Unused
  /\ saveArg = Unused
  /\ savePlan = Unused
  /\ saveResult = Unused
  /\ previousStatsData = Unused
  /\ ServiceUnused

NextDailyTrend == RunCalculateDailyTrend

SpecDailyTrend == InitDailyTrend /\ [][NextDailyTrend]_vars

\* calculateStats(timetable, absences, previousStatsData) as syncUser and
\* triggerImmediateSync call it.
InitStats ==
  /\ pc = "processLessonData"
  /\ \E z \in DOMAIN ZoneChoices : tz = ZoneChoices[z]
  /\ \E n \in DOMAIN NowChoices : now = NowChoices[n]
  /\ \E p \in DOMAIN PreviousChoices : previousStatsData = PreviousChoices[p]
  /\ timetable \in SeqsUpTo(StatsLessons, MaxStatsLessons)
  /\ absences \in SeqsUpTo(StatsAbsences, 1)
  /\ absencesByDate = Unused
  /\ processed = Unused
  /\ absenceCounts = Unused
  /\ trendCurrent = Unused
  /\ trendChanges = Unused
  /\ subjectBreakdown = Unused
  /\ trendArgs = Unused
  /\ trendData = Unused
  /\ dailyTrend = Unused
  /\ statsData = Unused
  /\ dayCode = 0
  /\ incremented = Unused
  /\ formatted = Unused
  /\ recoded = Unused
  /\ session = FALSE
  /\ dbPlan = "FREE"
  /\ dbWidgets = Unused
  /\ saveArg = Unused
  /\ savePlan = Unused
  /\ saveResult = Unused
  /\ ServiceUnused

NextStats ==
  \/ RunProcessLessonData
  \/ RunCalculateAbsenceCounts
  \/ RunCalculateTrendChanges
  \/ RunCalculateSubjectBreakdown
  \/ RunCalculateDailyTrend
  \/ RunCalculateStatsReturn

SpecStats == InitStats /\ [][NextStats]_vars

\* The day-code codec on a valid day-code.
InitCodec ==
  /\ pc = "incrementUntisDate"
  /\ dayCode \in DayCodes
  /\ timetable = Unused
  /\ absences = Unused
  /\ absencesByDate = Unused
  /\ processed = Unused
  /\ now = 0
  /\ tz = 0
  /\ absenceCounts = Unused
  /\ trendCurrent = Unused
  /\ trendChanges = Unused
  /\ subjectBreakdown = Unused
  /\ trendArgs = Unused
  /\ trendData = Unused
  /\ dailyTrend = Unused
  /\ statsData = Unused
  /\ previousStatsData = Unused
  /\ incremented = Unused
  /\ formatted = Unused
  /\ recoded = Unused
  /\ session = FALSE
  /\ dbPlan = "FREE"
  /\ dbWidgets = Unused
  /\ saveArg = Unused
  /\ savePlan = Unused
  /\ saveResult = Unused
  /\ ServiceUnused

NextCodec == RunIncrementUntisDate \/ RunFormatUntisDate \/ RunRecode

SpecCodec == InitCodec /\ [][NextCodec]_vars

\* saveWidgetLayout(widgets) for one user.
InitWidgets ==
  /\ pc = "saveWidgetLayout"
  /\ session \in BOOLEAN
  /\ \E p \in DOMAIN PlanChoices : dbPlan = PlanChoices[p]
  /\ \E w \in DOMAIN PersistedChoices : dbWidgets = PersistedChoices[w]
  /\ saveArg \in SeqsUpTo(LayoutTypes, MaxWidgets)
  /\ savePlan = "unread"
  /\ saveResult = Unused
  /\ timetable = Unused
  /\ absences = Unused
  /\ absencesByDate = Unused
  /\ processed = Unused
  /\ now = 0
  /\ tz = 0
  /\ absenceCounts = Unused
  /\ trendCurrent = Unused
  /\ trendChanges = Unused
  /\ subjectBreakdown = Unused
  /\ trendArgs = Unused
  /\ trendData = Unused
  /\ dailyTrend = Unused
  /\ statsData = Unused
  /\ previousStatsData = Unused
  /\ dayCode = 0
  /\ incremented = Unused
  /\ formatted = Unused
  /\ recoded = Unused
  /\ ServiceUnused

NextWidgets ==
  \/ SaveAuth
  \/ SaveFindUser
  \/ SaveFindUserFails
  \/ SaveValidate
  \/ SaveTransaction
  \/ SaveTransactionFails

SpecWidgets == InitWidgets /\ [][NextWidgets]_vars

(***************************************************************************)
(* The account of one user: the Paddle webhook route                       *)
(* (src/unnamed/part_003) changes the plan, the signed-in user calls       *)
(* saveWidgetLayout and getUserWidgets (src/unnamed/part_006) one after    *)
(* the other, and a webhook request is handled while a call is running.    *)
(* The database holds the row of the user "u1"; "null" is SQL NULL.        *)
(***************************************************************************)
\* DEFAULT_WIDGETS of src/types/widget.ts, each widget by its type.
DEFAULT_WIDGETS ==
  <<"KPI_7DAYS", "KPI_14DAYS", "KPI_30DAYS", "KPI_ALLTIME", "ABSENCE_BAR",
    "ABSENCE_TREND", "SUBJECT_BREAKDOWN", "ABSENCE_RECOMMENDER">>

\* getUserWidgets, lines 166-186: the rows read for the signed-in user.
getUserWidgets(widgets) ==
  IF Len(widgets) = 0 THEN DEFAULT_WIDGETS ELSE widgets

\* verifyWebhookSignature without the test of the secret.
verifyWebhookSignatureAnySecret(signature, webhookSecretSet) ==
  signature = "valid"

\* verifyWebhookSignature(signature, body): signature "valid" is the one
\* Paddle computes over this body, the only one isValidSignature accepts.
verifyWebhookSignature(signature, webhookSecretSet) ==
  IF ~webhookSecretSet THEN FALSE ELSE signature = "valid"

\* handleSubscriptionActivated, lines 103-107: the data of the update.
handleSubscriptionActivated(data) ==
  [plan |-> "PREMIUM", paddleCustomerId |-> data.customer_id,
   paddleSubscriptionId |-> data.id]

\* handleSubscriptionCanceled leaving the subscription id in place.
handleSubscriptionCanceledKeepId(data) ==
  [plan |-> "FREE"]

\* handleSubscriptionCanceled, lines 153-156: the data of the update.
handleSubscriptionCanceled(data) ==
  [plan |-> "FREE", paddleSubscriptionId |-> "null"]

\* handleSubscriptionUpdated, lines 192-211: the data of the update, or no
\* field when the status asks for no update.
handleSubscriptionUpdated(data) ==
  IF data.status = "active"
  THEN [plan |-> "PREMIUM", paddleCustomerId |-> data.customer_id,
        paddleSubscriptionId |-> data.id]
  ELSE IF data.status = "canceled" \/ data.status = "expired"
  THEN [plan |-> "FREE", paddleSubscriptionId |-> "null"]
  ELSE <<>>

\* handleTransactionCompleted, lines 239-242: the data of the update.
handleTransactionCompleted(data) ==
  [plan |-> "PREMIUM", paddleSubscriptionId |-> data.subscription_id]

\* The userId a handler resolves: custom_data?.userId, else the lookups of
\* lines 86-93, 127-143, 177-183 and 231-234.  The two prisma.user.findFirst
\* queries, where: {paddleCustomerId} and where: {paddleSubscriptionId}, run
\* on the one row.
ResolveUserId(eventType, data, rowCustomerId, rowSubscriptionId) ==
  LET byCustomerId ==
        IF rowCustomerId = data.customer_id THEN "u1" ELSE "none"
      bySubscriptionId ==
        IF rowSubscriptionId = data.id THEN "u1" ELSE "none"
  IN  IF eventType = "transaction.completed"
      THEN IF data.subscription_id = "none" THEN "none" ELSE byCustomerId
      ELSE IF data.userId # "none" THEN data.userId
      ELSE IF eventType = "subscription.canceled"
              /\ bySubscriptionId # "none"
      THEN bySubscriptionId
      ELSE byCustomerId

\* The data of the update the handler of an event type issues.
UpdateData(eventType, data) ==
  IF eventType = "subscription.activated"
  THEN handleSubscriptionActivated(data)
  ELSE IF eventType = "subscription.canceled"
  THEN handleSubscriptionCanceled(data)
  ELSE IF eventType = "subscription.updated"
  THEN handleSubscriptionUpdated(data)
  ELSE handleTransactionCompleted(data)

\* The requests: the paddle-signature header is the valid signature of the
\* body, a forged one, or absent ("").  In the payloads data.id is the
\* subscription (the transaction), userId is custom_data?.userId ("none"
\* when absent), subscription_id is "none" when the transaction has none.
Requests ==
  LET Event(eventType, id, customerId, userId, status, subscriptionId) ==
        [event_type |-> eventType,
         data |-> [id |-> id, customer_id |-> customerId, userId |-> userId,
                   status |-> status, subscription_id |-> subscriptionId]]
      Events ==
        {Event(t, s, "ctm_1", u, "active", "none") :
           t \in {"subscription.activated", "subscription.canceled"},
           s \in {"sub_1", "sub_2"}, u \in {"u1", "none"}}
        \cup {Event("subscription.canceled", "sub_2", "ctm_2", "none",
                    "canceled", "none")}
        \cup {Event("subscription.updated", "sub_1", "ctm_1", u, st, "none") :
                u \in {"u1", "none"}, st \in {"active", "canceled", "paused"}}
        \cup {Event("transaction.completed", "txn_1", "ctm_1", "none",
                    "completed", s) : s \in {"none", "sub_1"}}
        \cup {Event("customer.created", "ctm_1", "ctm_1", "none", "active",
                    "none")}
  IN  {[signature |-> sig, payload |-> e] :
         sig \in {"valid", "forged", ""}, e \in Events}

\* The layouts the user submits: one free widget, more free widgets than
\* the free plan allows, the premium widget.
AccountLayouts ==
  {<<"KPI_7DAYS">>, [i \in 1..MaxWidgets |-> "KPI_7DAYS"],
   <<"ABSENCE_RECOMMENDER">>}

\* The engine's variables in a specification that does not use them.
StatsUnused ==
  /\ timetable = Unused
  /\ absences = Unused
  /\ absencesByDate = Unused
  /\ processed = Unused
  /\ now = 0
  /\ tz = 0
  /\ absenceCounts = Unused
  /\ trendCurrent = Unused
  /\ trendChanges = Unused
  /\ subjectBreakdown = Unused
  /\ trendArgs = Unused
  /\ trendData = Unused
  /\ dailyTrend = Unused
  /\ statsData = Unused
  /\ previousStatsData = Unused
  /\ dayCode = 0
  /\ incremented = Unused
  /\ formatted = Unused
  /\ recoded = Unused

\* The signed-in user calls saveWidgetLayout(widgets).
SaveCall ==
  /\ pc \in {"idle", "saveReturned", "getReturned"}
  /\ pc' = "saveWidgetLayout"
  /\ session' = TRUE
  /\ saveArg' \in AccountLayouts
  /\ savePlan' = "unread"
  /\ saveResult' = Unused
  /\ returnedWidgets' = Unused
  /\ UNCHANGED <<dbPlan, dbWidgets, dbCustomerId, dbSubscriptionId,
                 webhookSecret, webhookPc, request, webhookUserId, response>>
  /\ UNCHANGED <<statsVars, syncVars>>

\* getUserWidgets() of the signed-in user, lines 160-187.
GetUserWidgets ==
  /\ pc \in {"idle", "saveReturned", "getReturned"}
  /\ pc' = "getReturned"
  /\ session' = TRUE
  /\ returnedWidgets' = getUserWidgets(dbWidgets)
  /\ saveArg' = Unused
  /\ savePlan' = "unread"
  /\ saveResult' = Unused
  /\ UNCHANGED <<dbPlan, dbWidgets, dbCustomerId, dbSubscriptionId,
                 webhookSecret, webhookPc, request, webhookUserId, response>>
  /\ UNCHANGED <<statsVars, syncVars>>

\* POST, lines 14-20: a request arrives.
WebhookPost ==
  /\ webhookPc \in {"idle", "responded"}
  /\ request' \in Requests
  /\ webhookPc' = "verifyWebhookSignature"
  /\ webhookUserId' = "none"
  /\ response' = 0
  /\ UNCHANGED <<pc, session, dbPlan, dbWidgets, saveArg, savePlan,
                 saveResult, returnedWidgets, dbCustomerId, dbSubscriptionId,
                 webhookSecret>>
  /\ UNCHANGED <<statsVars, syncVars>>

\* POST, lines 23-31: the signature is verified.
WebhookVerify ==
  /\ webhookPc = "verifyWebhookSignature"
  /\ IF ~verifyWebhookSignature(request.signature, webhookSecret)
     THEN /\ response' = 401
          /\ webhookPc' = "responded"
     ELSE /\ response' = response
          /\ webhookPc' = "switch"
  /\ UNCHANGED <<pc, session, dbPlan, dbWidgets, saveArg, savePlan,
                 saveResult, returnedWidgets, dbCustomerId, dbSubscriptionId,
                 webhookSecret, request, webhookUserId>>
  /\ UNCHANGED <<statsVars, syncVars>>

\* POST, lines 34-62, and the handlers up to their update: the user is
\* resolved; the request is answered when there is nothing to update.
\* HandledEventTypes are the cases of the switch, lines 41-56.
WebhookFindUser ==
  /\ webhookPc = "switch"
  /\ LET HandledEventTypes ==
           {"subscription.activated", "subscription.canceled",
            "subscription.updated", "transaction.completed"}
         eventType == request.payload.event_type
         data == request.payload.data
         userId == ResolveUserId(eventType, data, dbCustomerId,
                                 dbSubscriptionId)
         update ==
           /\ eventType \in HandledEventTypes
           /\ userId # "none"
           /\ eventType = "subscription.updated"
                => DOMAIN handleSubscriptionUpdated(data) # {}
           /\ eventType = "transaction.completed" => dbPlan # "PREMIUM"
     IN  /\ webhookUserId' =
              IF eventType \in HandledEventTypes THEN userId ELSE "none"
         /\ IF update
            THEN /\ webhookPc' = "update"
                 /\ response' = response
            ELSE /\ webhookPc' = "responded"
                 /\ response' = 200
  /\ UNCHANGED <<pc, session, dbPlan, dbWidgets, saveArg, savePlan,
                 saveResult, returnedWidgets, dbCustomerId, dbSubscriptionId,
                 webhookSecret, request>>
  /\ UNCHANGED <<statsVars, syncVars>>

\* prisma.user.update of the handler, then POST line 62: a column takes
\* the field of the data when the data names it and keeps its value
\* otherwise.
WebhookUpdate ==
  /\ webhookPc = "update"
  /\ LET data == UpdateData(request.payload.event_type, request.payload.data)
         Updated(d, field, stored) ==
           IF field \in DOMAIN d THEN d[field] ELSE stored
     IN  /\ dbPlan' = Updated(data, "plan", dbPlan)
         /\ dbCustomerId' = Updated(data, "paddleCustomerId", dbCustomerId)
         /\ dbSubscriptionId' =
              Updated(data, "paddleSubscriptionId", dbSubscriptionId)
  /\ response' = 200
  /\ webhookPc' = "responded"
  /\ UNCHANGED <<pc, session, dbWidgets, saveArg, savePlan, saveResult,
                 returnedWidgets, webhookSecret, request, webhookUserId>>
  /\ UNCHANGED <<statsVars, syncVars>>

\* POST, lines 63-69: a query or the update throws.
WebhookFails ==
  /\ webhookPc \in {"switch", "update"}
  /\ response' = 500
  /\ webhookPc' = "responded"
  /\ UNCHANGED <<pc, session, dbPlan, dbWidgets, saveArg, savePlan,
                 saveResult, returnedWidgets, dbCustomerId, dbSubscriptionId,
                 webhookSecret, request, webhookUserId>>
  /\ UNCHANGED <<statsVars, syncVars>>

\* A new user: plan FREE, no Paddle identifiers, no widget persisted.
InitAccount ==
  /\ pc = "idle"
  /\ session = TRUE
  /\ dbPlan = "FREE"
  /\ dbWidgets = <<>>
  /\ saveArg = Unused
  /\ savePlan = "unread"
  /\ saveResult = Unused
  /\ returnedWidgets = Unused
  /\ dbCustomerId = "null"
  /\ dbSubscriptionId = "null"
  /\ webhookSecret \in BOOLEAN
  /\ webhookPc = "idle"
  /\ request = Unused
  /\ webhookUserId = "none"
  /\ response = 0
  /\ StatsUnused
  /\ SyncUnused

NextAccount ==
  \/ SaveCall
  \/ SaveAuth
  \/ SaveFindUser
  \/ SaveFindUserFails
  \/ SaveValidate
  \/ SaveTransaction
  \/ SaveTransactionFails
  \/ GetUserWidgets
  \/ WebhookPost
  \/ WebhookVerify
  \/ WebhookFindUser
  \/ WebhookUpdate
  \/ WebhookFails

SpecAccount == InitAccount /\ [][NextAccount]_vars

(***************************************************************************)
(* The sync paths: syncUser of the worker (src/worker/index.ts) and        *)
(* triggerImmediateSync (src/lib/sync.ts).  A run is a record: where it    *)
(* is (pc), the Untis session it holds, its logout, the step that threw,   *)
(* and the result it reports.  The UserStats row is known by the number    *)
(* of the upsert that wrote it (dbStats).                                  *)
(***************************************************************************)
\* The widget and account variables in a specification of the sync paths.
AccountUnused ==
  /\ session = FALSE
  /\ dbPlan = "FREE"
  /\ dbWidgets = Unused
  /\ saveArg = Unused
  /\ savePlan = Unused
  /\ saveResult = Unused
  /\ returnedWidgets = Unused
  /\ dbCustomerId = "null"
  /\ dbSubscriptionId = "null"
  /\ webhookSecret = FALSE
  /\ webhookPc = "idle"
  /\ request = Unused
  /\ webhookUserId = "none"
  /\ response = 0

\* The widget and account variables.
widgetVars == <<session, dbPlan, dbWidgets, saveArg, savePlan, saveResult>>

\* A run at its first step: syncUser starts with decrypt (its caller has
\* read the connection), triggerImmediateSync reads the connection first.
NewRun(kind) ==
  [kind |-> kind,
   pc |-> IF kind = "syncUser" THEN "decrypt" ELSE "connection",
   untisSession |-> "none", logout |-> "none", failedAt |-> "none",
   result |-> "none"]

\* No run.
NoRun ==
  [kind |-> "none", pc |-> "returned", untisSession |-> "none",
   logout |-> "none", failedAt |-> "none", result |-> "none"]

\* One step of a run; ok is whether the awaited call resolves.  syncUser:
\* a throw is caught (lines 160-169) and the finally block logs out when
\* untis is set (170-179).  triggerImmediateSync: a throw is caught and
\* the run returns (219-227); the logout is the step after the update
\* (208-213) and the success is reported after it (218).  NextStep is the
\* step after a step that did not throw; the errors of CaughtSteps are
\* caught where they are raised: getSchoolYearStart falls back, the
\* fetches yield [].
SyncStep(run, ok) ==
  LET NextStep ==
        [connection |-> "decrypt", decrypt |-> "login",
         login |-> "getSchoolYearStart", getSchoolYearStart |-> "fetch",
         fetch |-> "findUnique", findUnique |-> "upsert",
         upsert |-> "update", update |-> "logout", logout |-> "returned"]
      CaughtSteps == {"getSchoolYearStart", "fetch"}
  IN  IF run.pc = "logout"
      THEN [run EXCEPT !.pc = "returned",
                       !.logout = IF ok THEN "ok" ELSE "failed",
                       !.untisSession = IF ok THEN "closed" ELSE @,
                       !.result = IF @ = "none" THEN "success" ELSE @]
      ELSE IF ok \/ run.pc \in CaughtSteps
      THEN [run EXCEPT !.pc = NextStep[run.pc],
                       !.untisSession =
                         IF run.pc = "login" THEN "open" ELSE @,
                       !.result =
                         IF run.kind = "syncUser" /\ run.pc = "update"
                         THEN "success" ELSE @]
      ELSE [run EXCEPT !.failedAt = run.pc,
                       !.result = "failure",
                       !.pc = IF run.kind = "syncUser" /\ run.pc # "decrypt"
                              THEN "logout" ELSE "returned"]

\* The UserStats row after a step: the upsert writes it.
StatsAfter(run, ok, stored) ==
  IF run.pc = "upsert" /\ ok THEN stored + 1 ELSE stored

\* Most upserts of a behaviour of the sync paths.
MaxUpserts == 3

\* A sync operation is called for the user.
SyncCall ==
  /\ pc = "sync"
  /\ sync.pc = "returned"
  /\ dbStats < MaxUpserts
  /\ \E kind \in {"syncUser", "triggerImmediateSync"} : sync' = NewRun(kind)
  /\ UNCHANGED <<pc, cycles, timer, dbStats, cache, readers, storedRows>>
  /\ UNCHANGED <<statsVars, widgetVars, accountVars>>

\* The run under way takes its next step.
SyncRun ==
  /\ pc = "sync"
  /\ sync.pc # "returned"
  /\ \E ok \in BOOLEAN :
       /\ sync' = SyncStep(sync, ok)
       /\ dbStats' = StatsAfter(sync, ok, dbStats)
  /\ UNCHANGED <<pc, cycles, timer, cache, readers, storedRows>>
  /\ UNCHANGED <<statsVars, widgetVars, accountVars>>

\* One user, sync operations one after the other.
InitSync ==
  /\ pc = "sync"
  /\ \E kind \in {"syncUser", "triggerImmediateSync"} : sync = NewRun(kind)
  /\ dbStats = 0
  /\ cycles = Unused
  /\ timer = FALSE
  /\ cache = 0
  /\ readers = Unused
  /\ storedRows = Unused
  /\ StatsUnused
  /\ AccountUnused

NextSync == SyncCall \/ SyncRun

SpecSync == InitSync /\ [][NextSync]_vars

(***************************************************************************)
(* The worker: main awaits a first runSyncCycle, then setInterval starts   *)
(* one every SYNC_INTERVAL_MS, whether or not the one before has ended.    *)
(* A cycle is a record: where it is, the index of the connection it        *)
(* processes, and its syncUser run.                                        *)
(***************************************************************************)
\* Most runSyncCycle executions of a behaviour: the first and two started
\* by the timer.
MaxCycles == 3

\* Most active connections.
MaxConnections == 2

\* main, lines 251-253: the timer calls runSyncCycle.
TimerFires ==
  /\ pc = "worker"
  /\ timer
  /\ \E c \in DOMAIN cycles :
       /\ cycles[c].pc = "waiting"
       /\ \A b \in 1..(c - 1) : cycles[b].pc # "waiting"
       /\ cycles' = [cycles EXCEPT ![c].pc = "findMany"]
  /\ UNCHANGED <<pc, sync, timer, dbStats, cache, readers, storedRows>>
  /\ UNCHANGED <<statsVars, widgetVars, accountVars>>

\* main, lines 248-253: the first cycle has returned, setInterval is called.
MainSetInterval ==
  /\ pc = "worker"
  /\ ~timer
  /\ cycles[1].pc = "returned"
  /\ timer' = TRUE
  /\ UNCHANGED <<pc, sync, cycles, dbStats, cache, readers, storedRows>>
  /\ UNCHANGED <<statsVars, widgetVars, accountVars>>

\* runSyncCycle, lines 191-212: the connections are read; the cycle ends
\* when there is none or the query throws, else syncUser is called for
\* the first.
CycleFindMany ==
  /\ pc = "worker"
  /\ \E c \in DOMAIN cycles, n \in 0..MaxConnections, ok \in BOOLEAN :
       /\ cycles[c].pc = "findMany"
       /\ cycles' =
            IF ok /\ n > 0
            THEN [cycles EXCEPT ![c].pc = "syncUser", ![c].index = 1,
                                ![c].count = n,
                                ![c].run = NewRun("syncUser")]
            ELSE [cycles EXCEPT ![c].pc = "returned"]
  /\ UNCHANGED <<pc, sync, timer, dbStats, cache, readers, storedRows>>
  /\ UNCHANGED <<statsVars, widgetVars, accountVars>>

\* syncUser of a cycle takes its next step.
CycleSyncUser ==
  /\ pc = "worker"
  /\ \E c \in DOMAIN cycles, ok \in BOOLEAN :
       /\ cycles[c].pc = "syncUser"
       /\ cycles[c].run.pc # "returned"
       /\ cycles' = [cycles EXCEPT ![c].run = SyncStep(@, ok)]
       /\ dbStats' = StatsAfter(cycles[c].run, ok, dbStats)
  /\ UNCHANGED <<pc, sync, timer, cache, readers, storedRows>>
  /\ UNCHANGED <<statsVars, widgetVars, accountVars>>

\* runSyncCycle, lines 210-220: syncUser has returned, the loop goes on
\* with the next connection or ends.
CycleNext ==
  /\ pc = "worker"
  /\ \E c \in DOMAIN cycles :
       /\ cycles[c].pc = "syncUser"
       /\ cycles[c].run.pc = "returned"
       /\ cycles' =
            IF cycles[c].index < cycles[c].count
            THEN [cycles EXCEPT ![c].index = @ + 1,
                                ![c].run = NewRun("syncUser")]
            ELSE [cycles EXCEPT ![c].pc = "returned", ![c].run = NoRun]
  /\ UNCHANGED <<pc, sync, timer, dbStats, cache, readers, storedRows>>
  /\ UNCHANGED <<statsVars, widgetVars, accountVars>>

\* The worker has started: main has called the first runSyncCycle.
InitWorker ==
  /\ pc = "worker"
  /\ cycles = [c \in 1..MaxCycles |->
                 [pc |-> IF c = 1 THEN "findMany" ELSE "waiting",
                  index |-> 0, count |-> 0, run |-> NoRun]]
  /\ timer = FALSE
  /\ dbStats = 0
  /\ sync = Unused
  /\ cache = 0
  /\ readers = Unused
  /\ storedRows = Unused
  /\ StatsUnused
  /\ AccountUnused

NextWorker ==
  \/ TimerFires
  \/ MainSetInterval
  \/ CycleFindMany
  \/ CycleSyncUser
  \/ CycleNext

SpecWorker == InitWorker /\ [][NextWorker]_vars

(***************************************************************************)
(* The stats cache: getUserStats and triggerManualSync                     *)
(* (src/unnamed/part_006) with the LRU cache of src/types/widget.ts.       *)
(* The cache holds the entry of the one key user:<id>:stats: the number    *)
(* of the upsert whose row it was built from, 0 when there is no entry.    *)
(* A getUserStats call is a record: where it is, the row it has read, the  *)
(* value it returns, and the row the last manual sync had written when     *)
(* the call began (floor).                                                 *)
(***************************************************************************)
\* Most getUserStats calls under way at once.
MaxReaders == 2

\* invalidateUserStatsCache(userId): the entries of the user are deleted.
invalidateUserStatsCache(entry) == 0

\* getUserStats, lines 59-82: the call begins with cache.get; a hit is
\* returned at once.  syncedRow is the row written by the manual sync that
\* has returned success, 0 when the last manual sync has not returned or
\* has failed.
ReaderCall ==
  /\ pc = "cache"
  /\ \E r \in DOMAIN readers :
       /\ readers[r].pc \in {"idle", "returned"}
       /\ readers' =
            LET syncedRow ==
                  IF sync.pc = "returned" /\ sync.result = "success"
                  THEN dbStats ELSE 0
            IN  [readers EXCEPT
                   ![r] = IF cache # 0
                          THEN [pc |-> "returned", userStats |-> 0,
                                result |-> cache, floor |-> syncedRow]
                          ELSE [pc |-> "findUnique", userStats |-> 0,
                                result |-> 0, floor |-> syncedRow]]
  /\ UNCHANGED <<pc, sync, cycles, timer, dbStats, cache, storedRows>>
  /\ UNCHANGED <<statsVars, widgetVars, accountVars>>

\* Lines 84-86: the database executes prisma.userStats.findUnique.
ReaderFindUnique ==
  /\ pc = "cache"
  /\ \E r \in DOMAIN readers :
       /\ readers[r].pc = "findUnique"
       /\ readers' = [readers EXCEPT ![r].pc = "set",
                                     ![r].userStats = dbStats]
  /\ UNCHANGED <<pc, sync, cycles, timer, dbStats, cache, storedRows>>
  /\ UNCHANGED <<statsVars, widgetVars, accountVars>>

\* Lines 88-154: the call goes on with the row read; null is returned
\* when there is no row, else the result is built, cached and returned.
ReaderSet ==
  /\ pc = "cache"
  /\ \E r \in DOMAIN readers :
       /\ readers[r].pc = "set"
       /\ readers' = [readers EXCEPT ![r].pc = "returned",
                                     ![r].result = readers[r].userStats]
       /\ cache' = IF readers[r].userStats = 0 THEN cache
                   ELSE readers[r].userStats
  /\ UNCHANGED <<pc, sync, cycles, timer, dbStats, storedRows>>
  /\ UNCHANGED <<statsVars, widgetVars, accountVars>>

\* LRUCache.get, lines 192-196: the entry is older than the ttl.
CacheExpires ==
  /\ pc = "cache"
  /\ cache # 0
  /\ cache' = 0
  /\ UNCHANGED <<pc, sync, cycles, timer, dbStats, readers, storedRows>>
  /\ UNCHANGED <<statsVars, widgetVars, accountVars>>

\* triggerManualSync, lines 284-293: triggerImmediateSync is called.
ManualSyncCall ==
  /\ pc = "cache"
  /\ sync.pc = "returned"
  /\ dbStats < MaxUpserts
  /\ sync' = NewRun("triggerImmediateSync")
  /\ UNCHANGED <<pc, cycles, timer, dbStats, cache, readers, storedRows>>
  /\ UNCHANGED <<statsVars, widgetVars, accountVars>>

\* triggerImmediateSync takes its next step; when it returns success,
\* triggerManualSync invalidates the cache and returns, lines 296-301.
ManualSyncRun ==
  /\ pc = "cache"
  /\ sync.pc # "returned"
  /\ \E ok \in BOOLEAN :
       /\ sync' = SyncStep(sync, ok)
       /\ dbStats' = StatsAfter(sync, ok, dbStats)
       /\ cache' = IF sync'.pc = "returned" /\ sync'.result = "success"
                   THEN invalidateUserStatsCache(cache)
                   ELSE cache
  /\ UNCHANGED <<pc, cycles, timer, readers, storedRows>>
  /\ UNCHANGED <<statsVars, widgetVars, accountVars>>

\* A user without stats row, an empty cache, no call under way.
InitCache ==
  /\ pc = "cache"
  /\ sync = NoRun
  /\ dbStats = 0
  /\ cache = 0
  /\ readers = [r \in 1..MaxReaders |->
                  [pc |-> "idle", userStats |-> 0, result |-> 0,
                   floor |-> 0]]
  /\ cycles = Unused
  /\ timer = FALSE
  /\ storedRows = Unused
  /\ StatsUnused
  /\ AccountUnused

NextCache ==
  \/ ReaderCall
  \/ ReaderFindUnique
  \/ ReaderSet
  \/ CacheExpires
  \/ ManualSyncCall
  \/ ManualSyncRun

SpecCache == InitCache /\ [][NextCache]_vars

(***************************************************************************)
(* The date-range expansion of processLessonData, lines 97-134, one        *)
(* iteration of the while loop at a time, for one absence: dayCode is      *)
(* currentDate.                                                            *)
(***************************************************************************)
\* Longest range of an absence, in days after its start day.
MaxSpan == 4

\* Absences whose end day is up to two days before the start day or up to
\* MaxSpan days after it, and absences without an end day-code.  The start
\* days: before the ends of a year, of February in a leap year and in a
\* common year, of a month of 31 and of 30 days, and inside a month.
ExpandAbsenceChoices ==
  LET ExpandStarts ==
        {19991230, 20240227, 20241230, 20241231, 20250130, 20250227,
         20250429, 20250615}
  IN  {[startDate |-> d, endDate |-> DayCodeOf(DayOfCode(d) + k),
        startTime |-> 800, endTime |-> 930] :
         d \in ExpandStarts, k \in (-2)..MaxSpan}
      \cup
      {[startDate |-> d, startTime |-> 800, endTime |-> 930] :
         d \in ExpandStarts}

\* Lines 97-133: the loop condition holds, the day's interval is pushed
\* and currentDate moves to the next day.
ExpandDay ==
  /\ pc = "while"
  /\ LET absence   == absences[1]
         startDate == absence.startDate
         endDate   == OrElse(absence, "endDate", absence.startDate)
         times     == DayInterval(absence, startDate, endDate, dayCode)
     IN  /\ dayCode <= endDate
         /\ absencesByDate' =
              MapPush(absencesByDate, formatUntisDate(dayCode),
                      [startTime |-> times.startTime,
                       endTime   |-> times.endTime,
                       absence   |-> 1])
         /\ dayCode' = incrementUntisDate(dayCode)
  /\ UNCHANGED <<pc, timetable, absences, processed, now, tz, absenceCounts,
                 trendCurrent, trendChanges, subjectBreakdown, trendArgs,
                 trendData, dailyTrend, statsData, previousStatsData,
                 incremented, formatted, recoded>>
  /\ UNCHANGED <<widgetVars, serviceVars>>

\* Line 97: the loop condition fails, the loop is left.
ExpandExit ==
  /\ pc = "while"
  /\ ~(dayCode <= OrElse(absences[1], "endDate", absences[1].startDate))
  /\ pc' = "expanded"
  /\ UNCHANGED <<timetable, absences, absencesByDate, processed, now, tz,
                 absenceCounts, trendCurrent, trendChanges, subjectBreakdown,
                 trendArgs, trendData, dailyTrend, statsData,
                 previousStatsData, dayCode, incremented, formatted, recoded>>
  /\ UNCHANGED <<widgetVars, serviceVars>>

\* Lines 86-96: the loop is entered for an absence with a start day-code.
InitExpand ==
  /\ pc = "while"
  /\ \E a \in ExpandAbsenceChoices :
       /\ absences = <<a>>
       /\ dayCode = a.startDate
  /\ absencesByDate = EmptyMap
  /\ timetable = Unused
  /\ processed = Unused
  /\ now = 0
  /\ tz = 0
  /\ absenceCounts = Unused
  /\ trendCurrent = Unused
  /\ trendChanges = Unused
  /\ subjectBreakdown = Unused
  /\ trendArgs = Unused
  /\ trendData = Unused
  /\ dailyTrend = Unused
  /\ statsData = Unused
  /\ previousStatsData = Unused
  /\ incremented = Unused
  /\ formatted = Unused
  /\ recoded = Unused
  /\ AccountUnused
  /\ SyncUnused

NextExpand == ExpandDay \/ ExpandExit

SpecExpand == InitExpand /\ [][NextExpand]_vars

(***************************************************************************)
(* calculateStats on timetables with several subjects                      *)
(***************************************************************************)
\* Most lessons of such a timetable.
MaxAggregateLessons == 3

Physics == <<[name |-> "Physics"]>>

\* Lessons of two subjects on BaseDay, in the first or the second period,
\* taking place or cancelled.
AggregateLessons ==
  {[date |-> DayCodeOf(BaseDay), startTime |-> t[1], endTime |-> t[2],
    su |-> su] : t \in {<<800, 845>>, <<845, 930>>}, su \in {Math, Physics}}
  \cup
  {[date |-> DayCodeOf(BaseDay), startTime |-> t[1], endTime |-> t[2],
    su |-> su, code |-> "cancelled"] :
     t \in {<<800, 845>>, <<845, 930>>}, su \in {Math, Physics}}

\* An absence during the first period of BaseDay.
AggregateAbsences ==
  {[startDate |-> DayCodeOf(BaseDay), endDate |-> DayCodeOf(BaseDay),
    startTime |-> 800, endTime |-> 845]}

\* calculateStats(timetable, absences) on those timetables.
InitAggregates ==
  /\ pc = "processLessonData"
  /\ \E z \in DOMAIN ZoneChoices : tz = ZoneChoices[z]
  /\ now = NowChoices[1]
  /\ previousStatsData = <<>>
  /\ timetable \in SeqsUpTo(AggregateLessons, MaxAggregateLessons)
  /\ absences \in SeqsUpTo(AggregateAbsences, 1)
  /\ absencesByDate = Unused
  /\ processed = Unused
  /\ absenceCounts = Unused
  /\ trendCurrent = Unused
  /\ trendChanges = Unused
  /\ subjectBreakdown = Unused
  /\ trendArgs = Unused
  /\ trendData = Unused
  /\ dailyTrend = Unused
  /\ statsData = Unused
  /\ dayCode = 0
  /\ incremented = Unused
  /\ formatted = Unused
  /\ recoded = Unused
  /\ session = FALSE
  /\ dbPlan = "FREE"
  /\ dbWidgets = Unused
  /\ saveArg = Unused
  /\ savePlan = Unused
  /\ saveResult = Unused
  /\ ServiceUnused

SpecAggregates == InitAggregates /\ [][NextStats]_vars

(***************************************************************************)
(* What the two sync paths store: the upsert of syncUser                   *)
(* (src/worker/index.ts) and the one of triggerImmediateSync               *)
(* (src/lib/sync.ts), each applied to the snapshot calculateStats          *)
(* returned for the lessons and absences fetched.                          *)
(***************************************************************************)
\* The subjects of a ledger in the order they first appear, the order of
\* Object.entries(stats.subjectBreakdown).
RECURSIVE SubjectOrder(_)
SubjectOrder(lessons) ==
  IF lessons = <<>> THEN <<>>
  ELSE LET front   == SubjectOrder(SubSeq(lessons, 1, Len(lessons) - 1))
           subject == lessons[Len(lessons)].subject
       IN  IF \E k \in DOMAIN front : front[k] = subject THEN front
           ELSE Append(front, subject)

\* sync.ts lines 155-164: subjectBreakdownArray.
SubjectBreakdownArray(stats, lessons) ==
  LET order == SubjectOrder(lessons)
  IN  [k \in DOMAIN order |->
         [subject     |-> order[k],
          total       |-> stats.subjectBreakdown[order[k]].total,
          attended    |-> stats.subjectBreakdown[order[k]].attended,
          absences    |-> stats.subjectBreakdown[order[k]].absences,
          cancelled   |-> stats.subjectBreakdown[order[k]].cancelled,
          absenceRate |-> stats.subjectBreakdown[order[k]].absenceRate]]

\* index.ts lines 117-144: the row syncUser upserts.
SyncUserRow(stats, t) ==
  [absences7Days    |-> stats.absenceCounts.last7Days,
   absences14Days   |-> stats.absenceCounts.last14Days,
   absences30Days   |-> stats.absenceCounts.last30Days,
   absencesAllTime  |-> stats.absenceCounts.allTime,
   trend7Days       |-> stats.trendChanges.last7Days,
   trend14Days      |-> stats.trendChanges.last14Days,
   trend30Days      |-> stats.trendChanges.last30Days,
   subjectBreakdown |-> stats.subjectBreakdown,
   dailyTrend       |-> stats.dailyTrend,
   lastCalculated   |-> t]

\* sync.ts lines 172-199: the row triggerImmediateSync upserts.
TriggerImmediateSyncRow(stats, lessons, t) ==
  [absences7Days    |-> stats.absenceCounts.last7Days,
   absences14Days   |-> stats.absenceCounts.last14Days,
   absences30Days   |-> stats.absenceCounts.last30Days,
   absencesAllTime  |-> stats.absenceCounts.allTime,
   trend7Days       |-> stats.trendChanges,
   trend14Days      |-> stats.trendChanges,
   trend30Days      |-> stats.trendChanges,
   subjectBreakdown |-> SubjectBreakdownArray(stats, lessons),
   dailyTrend       |-> stats.dailyTrend,
   lastCalculated   |-> t]

\* syncUser, lines 117-144: the snapshot is upserted.
SyncUserUpsert ==
  /\ pc = "returned"
  /\ "syncUser" \notin DOMAIN storedRows
  /\ storedRows' =
       [p \in DOMAIN storedRows \cup {"syncUser"} |->
          IF p = "syncUser" THEN SyncUserRow(statsData, now)
          ELSE storedRows[p]]
  /\ UNCHANGED <<pc, sync, cycles, timer, dbStats, cache, readers>>
  /\ UNCHANGED <<statsVars, widgetVars, accountVars>>

\* triggerImmediateSync, lines 155-199: the snapshot is upserted.
TriggerImmediateSyncUpsert ==
  /\ pc = "returned"
  /\ "triggerImmediateSync" \notin DOMAIN storedRows
  /\ storedRows' =
       [p \in DOMAIN storedRows \cup {"triggerImmediateSync"} |->
          IF p = "triggerImmediateSync"
          THEN TriggerImmediateSyncRow(statsData, processed, now)
          ELSE storedRows[p]]
  /\ UNCHANGED <<pc, sync, cycles, timer, dbStats, cache, readers>>
  /\ UNCHANGED <<statsVars, widgetVars, accountVars>>

NextPersist ==
  \/ RunProcessLessonData
  \/ RunCalculateAbsenceCounts
  \/ RunCalculateTrendChanges
  \/ RunCalculateSubjectBreakdown
  \/ RunCalculateDailyTrend
  \/ RunCalculateStatsReturn
  \/ SyncUserUpsert
  \/ TriggerImmediateSyncUpsert

SpecPersist == InitStats /\ [][NextPersist]_vars

(***************************************************************************)
(* Properties                                                              *)
(***************************************************************************)
\* The local calendar day of the clock: "today".
Today == LocalDay(now, tz)

\* The window size in days of each window.
WindowSize == [last7Days |-> 7, last14Days |-> 14, last30Days |-> 30]

\* The ledger entries that are absent and dated within the days lo..hi.
AbsentWithin(lo, hi) ==
  {i \in DOMAIN processed :
     /\ processed[i].isAbsent
     /\ lo <= DayOfISO(processed[i].date)
     /\ DayOfISO(processed[i].date) <= hi}

SubjectsDone == pc = "calculateDailyTrend"

CountsDone == pc \in {"calculateTrendChanges", "calculateSubjectBreakdown"}

TrendsDone == pc = "calculateSubjectBreakdown"

\* C1: for every subject key of the result of calculateSubjectBreakdown,
\* total is the number of ledger entries of the subject, cancelled the
\* number of them with isCancelled, absences the number of non-cancelled
\* ones with isAbsent, attended = total - cancelled - absences, and so
\* attended + absences + cancelled = total.
C1_SubjectTotalsAddUp ==
  SubjectsDone =>
    \A subject \in DOMAIN subjectBreakdown :
      LET stats == subjectBreakdown[subject]
          of    == {i \in DOMAIN processed : processed[i].subject = subject}
          canc  == {i \in of : processed[i].isCancelled}
          abs   == {i \in of : ~processed[i].isCancelled
                                 /\ processed[i].isAbsent}
      IN  /\ stats.total = Cardinality(of)
          /\ stats.cancelled = Cardinality(canc)
          /\ stats.absences = Cardinality(abs)
          /\ stats.attended = stats.total - stats.cancelled - stats.absences
          /\ stats.attended + stats.absences + stats.cancelled = stats.total

\* A subject with an attended, an absent and a cancelled lesson, one of the
\* cancelled ones flagged absent as well.
C1_Witness ==
  /\ SubjectsDone
  /\ \E subject \in DOMAIN subjectBreakdown :
       /\ subjectBreakdown[subject].attended >= 1
       /\ subjectBreakdown[subject].absences >= 1
       /\ subjectBreakdown[subject].cancelled >= 1
       /\ \E i \in DOMAIN processed :
            /\ processed[i].subject = subject
            /\ processed[i].isCancelled
            /\ processed[i].isAbsent

\* C2: the counts of calculateAbsenceCounts are non-negative integers with
\* last7Days <= last14Days <= last30Days <= allTime.
C2_CountsMonotone ==
  CountsDone =>
    /\ \A f \in DOMAIN absenceCounts : absenceCounts[f] \in Nat
    /\ absenceCounts.last7Days <= absenceCounts.last14Days
    /\ absenceCounts.last14Days <= absenceCounts.last30Days
    /\ absenceCounts.last30Days <= absenceCounts.allTime

\* Absences in the last fortnight and before it, none in the last week.
C2_Witness ==
  /\ CountsDone
  /\ absenceCounts.last7Days < absenceCounts.last14Days
  /\ absenceCounts.last14Days < absenceCounts.last30Days

\* C3: for each window size W the count of calculateAbsenceCounts is the
\* number of absent ledger entries dated within [today - W, today], both
\* ends included; entries dated after today are not counted.
C3_CountsAreWindowCounts ==
  CountsDone =>
    \A w \in Windows :
      absenceCounts[w] =
        Cardinality(AbsentWithin(Today - WindowSize[w], Today))

\* C4: for each window size W, calculateTrendChanges takes as current the
\* number of absent entries dated within [today - W, today] and as previous
\* (previousValue) the number dated within [today - 2W + 1, today - W - 1].
C4_TrendPeriods ==
  TrendsDone =>
    \A w \in Windows :
      LET W == WindowSize[w]
      IN  /\ trendCurrent[w] = Cardinality(AbsentWithin(Today - W, Today))
          /\ trendChanges[w].previousValue =
               Cardinality(AbsentWithin(Today - 2 * W + 1, Today - W - 1))

\* The calendar days whose lessons countAbsencesInRange(startDaysAgo,
\* endDaysAgo) counts: a lesson's date is midnight UTC of its day.
DaysCounted(args) ==
  {d \in (Today - 70)..(Today + 5) :
     InRange(d * DayUnits, now, tz, args[1], args[2])}

\* C5: for each window size, the previous period of calculateTrendChanges
\* ends on the day before the current period begins, shares no day with
\* it and spans as many days.
C5_PreviousPeriodAdjacent ==
  TrendsDone =>
    \A w \in Windows :
      LET cur  == DaysCounted(CurrentArgs[w])
          prev == DaysCounted(PreviousArgs[w])
      IN  /\ cur # {} /\ prev # {}
          /\ (CHOOSE d \in prev : \A e \in prev : e <= d) + 1
               = (CHOOSE d \in cur : \A e \in cur : d <= e)
          /\ cur \cap prev = {}
          /\ Cardinality(cur) = Cardinality(prev)

\* C6: calculateTrendData(current, previous) has changePercent 100 when
\* previous = 0 < current, 0 when previous = 0 = current, and otherwise the
\* integer nearest to (current - previous) / previous * 100; direction is
\* "up" exactly when changePercent > 0, "down" exactly when it is < 0 and
\* "neutral" otherwise; previousValue is previous.
C6_TrendData ==
  pc = "done" =>
    LET current  == trendArgs.current
        previous == trendArgs.previous
        percent  == trendData.changePercent
        Dist     == percent * previous - 100 * (current - previous)
    IN  /\ previous = 0 /\ current > 0 => percent = 100
        /\ previous = 0 /\ current = 0 => percent = 0
        /\ previous > 0 =>
             /\ percent \in Int
             /\ 2 * Dist <= previous
             /\ -2 * Dist <= previous
        /\ (trendData.direction = "up") <=> (percent > 0)
        /\ (trendData.direction = "down") <=> (percent < 0)
        /\ (trendData.direction = "neutral") <=> (percent = 0)
        /\ trendData.previousValue = previous

\* One absence after three: -66.67 per cent, rounded to -67, "down".
C6_Witness ==
  /\ pc = "done"
  /\ trendArgs.previous = 3
  /\ trendArgs.current = 1
  /\ trendData.changePercent = -67
  /\ trendData.direction = "down"

ReconcileDone == pc = "calculateAbsenceCounts" /\ timetable # Unused

HasDate(lesson) == Truthy(lesson, "date")

\* The lessons that have a date, in input order: processed[k] is the
\* ledger entry of the k-th of them.
DatedLessons == SelectSeq(timetable, HasDate)

\* The intervals registered for the date of a lesson.
IntervalsOn(lesson) ==
  LET key == formatUntisDate(lesson.date)
  IN  IF key \in DOMAIN absencesByDate THEN Range(absencesByDate[key])
      ELSE {}

\* The end day-code of an absence, the start day-code when it has none.
EndDayCode(a) == IF "endDate" \in DOMAIN a THEN a.endDate ELSE a.startDate

\* C7: for every absence with a start day-code, times of day, and
\* startDay <= endDay (endDay defaulting to startDay), processLessonData
\* registers exactly one interval on each calendar day of
\* [startDay, endDay]: [startTime, endTime] on a day that is first and
\* last, [startTime, end-of-day] on the first day, [start-of-day, endTime]
\* on the last day and [start-of-day, end-of-day] on every day between.
C7_OneIntervalPerDay ==
  ReconcileDone =>
    \A i \in DOMAIN absences :
      LET a == absences[i]
      IN  ( /\ "startDate" \in DOMAIN a
            /\ "startTime" \in DOMAIN a
            /\ "endTime" \in DOMAIN a
            /\ a.startDate <= EndDayCode(a) ) =>
          LET first == DayOfCode(a.startDate)
              last  == DayOfCode(EndDayCode(a))
          IN  \A day \in first..last :
                LET key == formatUntisDate(DayCodeOf(day))
                    expected ==
                      [startTime |-> IF day = first THEN a.startTime ELSE 0,
                       endTime   |-> IF day = last THEN a.endTime ELSE 2359,
                       absence   |-> i]
                IN  /\ key \in DOMAIN absencesByDate
                    /\ Cardinality({k \in DOMAIN absencesByDate[key] :
                          absencesByDate[key][k].absence = i}) = 1
                    /\ expected \in Range(absencesByDate[key])

\* C8: a non-cancelled lesson with a date is marked absent exactly when an
\* interval registered for its date has lessonStart < intervalEnd and
\* lessonEnd > intervalStart (touching an interval's boundary is no
\* overlap), and every lesson with a date has one ledger entry, however
\* many intervals overlap it.
C8_AbsentIffOverlap ==
  ReconcileDone =>
    /\ Len(processed) = Len(DatedLessons)
    /\ \A k \in DOMAIN DatedLessons :
         LET lesson == DatedLessons[k]
         IN  ~("code" \in DOMAIN lesson /\ lesson.code = "cancelled") =>
               ( processed[k].isAbsent <=>
                   \E iv \in IntervalsOn(lesson) :
                      /\ lesson.startTime < iv.endTime
                      /\ lesson.endTime > iv.startTime )

\* A lesson two intervals overlap and a third only touches: one absent
\* ledger entry.
C8_Witness ==
  /\ ReconcileDone
  /\ Len(processed) = 1
  /\ processed[1].isAbsent
  /\ \E iv \in IntervalsOn(DatedLessons[1]) :
       iv.endTime = DatedLessons[1].startTime
  /\ Cardinality({iv \in IntervalsOn(DatedLessons[1]) :
        /\ DatedLessons[1].startTime < iv.endTime
        /\ DatedLessons[1].endTime > iv.startTime}) >= 1

\* C9: no ledger entry is both cancelled and absent: a cancelled lesson is
\* emitted with isCancelled = TRUE and isAbsent = FALSE, also when an
\* interval of its date overlaps it.
C9_CancelledNeverAbsent ==
  ReconcileDone =>
    /\ \A k \in DOMAIN processed :
         ~(processed[k].isCancelled /\ processed[k].isAbsent)
    /\ \A k \in DOMAIN DatedLessons :
         ("code" \in DOMAIN DatedLessons[k]
            /\ DatedLessons[k].code = "cancelled") =>
           processed[k].isCancelled /\ ~processed[k].isAbsent

\* A cancelled lesson that an interval of its date overlaps.
C9_Witness ==
  /\ ReconcileDone
  /\ \E k \in DOMAIN DatedLessons :
       /\ processed[k].isCancelled
       /\ \E iv \in IntervalsOn(DatedLessons[k]) :
            /\ DatedLessons[k].startTime < iv.endTime
            /\ DatedLessons[k].endTime > iv.startTime

\* C10: with one absence covering three consecutive days and one lesson on
\* each of them, the middle day's lesson (if it takes place) is absent
\* whatever its times; the first day's lesson is absent only if it overlaps
\* [absence.startTime, end-of-day]; the last day's lesson is absent only if
\* it overlaps [start-of-day, absence.endTime].
C10_ThreeDayAbsence ==
  ( /\ ReconcileDone
    /\ Len(absences) = 1
    /\ DOMAIN absences[1] = {"startDate", "endDate", "startTime", "endTime"}
    /\ DayOfCode(absences[1].endDate) = DayOfCode(absences[1].startDate) + 2
    /\ Len(DatedLessons) = Len(timetable)
    /\ \A d \in 0..2 :
         Cardinality({k \in DOMAIN timetable :
            DayOfCode(timetable[k].date)
              = DayOfCode(absences[1].startDate) + d}) = 1 ) =>
    \A k \in DOMAIN timetable :
      LET a      == absences[1]
          lesson == timetable[k]
          d      == DayOfCode(lesson.date) - DayOfCode(a.startDate)
      IN  /\ (d = 1 /\ ~processed[k].isCancelled) => processed[k].isAbsent
          /\ (d = 0 /\ processed[k].isAbsent) =>
               lesson.startTime < 2359 /\ lesson.endTime > a.startTime
          /\ (d = 2 /\ processed[k].isAbsent) =>
               lesson.startTime < a.endTime /\ lesson.endTime > 0

HasStartDate(absence) == Truthy(absence, "startDate")

\* C11: processLessonData does not fail on a lesson without a date or an
\* absence without a start day-code; the ledger has exactly one entry for
\* each lesson that has a date, in input order, and it is the ledger the
\* function returns when the records without a date or a start day-code are
\* removed from the input.
C11_SkipsMalformed ==
  ReconcileDone =>
    /\ Len(processed) = Len(DatedLessons)
    /\ \A k \in DOMAIN DatedLessons :
         /\ processed[k].date = formatUntisDate(DatedLessons[k].date)
         /\ processed[k].subject = SubjectOf(DatedLessons[k])
    /\ processed = processLessonData(DatedLessons,
                                     SelectSeq(absences, HasStartDate))

\* A lesson without a date before two lessons with one, and an absence
\* without a start day-code before the absence that makes a lesson absent.
C11_Witness ==
  /\ ReconcileDone
  /\ Len(timetable) = 3
  /\ ~HasDate(timetable[1])
  /\ Len(processed) = 2
  /\ processed[1].date # processed[2].date
  /\ Len(absences) = 2
  /\ ~HasStartDate(absences[1])
  /\ \E k \in DOMAIN processed : processed[k].isAbsent

TrendDone == pc = "return"

\* C12: calculateDailyTrend returns exactly 30 points, oldest first, dated
\* on 30 consecutive calendar days, each one day after the previous, and
\* the last point is dated today.
C12_ThirtyConsecutiveDays ==
  TrendDone =>
    /\ Len(dailyTrend) = 30
    /\ \A k \in 1..(Len(dailyTrend) - 1) :
         DayOfISO(dailyTrend[k + 1].date) = DayOfISO(dailyTrend[k].date) + 1
    /\ DayOfISO(dailyTrend[Len(dailyTrend)].date) = Today

\* The ledger entries that take place (are not cancelled) and are dated on
\* or before the day of an ISO date.
RealUpTo(iso) ==
  {i \in DOMAIN processed :
     /\ ~processed[i].isCancelled
     /\ DayOfISO(processed[i].date) <= DayOfISO(iso)}

StatsDone == pc = "returned"

\* C14: with an empty timetable and no absences calculateStats returns
\* last7Days = last14Days = last30Days = allTime = 0, each TrendData with
\* previousValue 0, changePercent 0 and direction "neutral", an empty
\* subject breakdown, 30 trend points with absenceRate 0, totalLessons 0 and
\* absences 0, and absenceRate 0, totalRealLessons 0, totalAbsences 0.
C14_EmptyInputs ==
  (StatsDone /\ timetable = <<>> /\ absences = <<>>) =>
    /\ statsData.absenceCounts =
         [last7Days |-> 0, last14Days |-> 0, last30Days |-> 0, allTime |-> 0]
    /\ DOMAIN statsData.trendChanges = Windows
    /\ \A w \in Windows :
         statsData.trendChanges[w] =
           [previousValue |-> 0, changePercent |-> 0, direction |-> "neutral"]
    /\ DOMAIN statsData.subjectBreakdown = {}
    /\ Len(statsData.dailyTrend) = 30
    /\ \A k \in DOMAIN statsData.dailyTrend :
         /\ statsData.dailyTrend[k].absenceRate = 0
         /\ statsData.dailyTrend[k].totalLessons = 0
         /\ statsData.dailyTrend[k].absences = 0
    /\ statsData.absenceRate = 0
    /\ statsData.totalRealLessons = 0
    /\ statsData.totalAbsences = 0

\* calculateStats has returned for an empty timetable and no absences.
C14_Witness ==
  /\ StatsDone
  /\ timetable = <<>>
  /\ absences = <<>>
  /\ processed = <<>>
  /\ Len(statsData.dailyTrend) = 30

\* C15: absenceCounts.allTime and totalAbsences of the result of
\* calculateStats are the number of absent entries of the ledger built
\* from the lessons and absences of that call, whatever snapshot the
\* caller handed over.
C15_AllTimeFromScratch ==
  StatsDone =>
    /\ processed = processLessonData(timetable, absences)
    /\ statsData.absenceCounts.allTime =
         Cardinality({i \in DOMAIN processed : processed[i].isAbsent})
    /\ statsData.totalAbsences = statsData.absenceCounts.allTime

\* The caller hands over a snapshot with an all-time count of 5; the
\* ledger of this call has one absence.
C15_Witness ==
  /\ StatsDone
  /\ previousStatsData # <<>>
  /\ previousStatsData[1].absencesAllTime = 5
  /\ statsData.absenceCounts.allTime = 1
  /\ Len(processed) = 2

\* C16: for every subject of the breakdown, absenceRate is
\* absences / (total - cancelled) * 100 rounded to two decimals when
\* total > cancelled and 0 when total = cancelled, and it lies between 0
\* and 100 (absenceRate is in hundredths of a percent here).
C16_SubjectAbsenceRate ==
  SubjectsDone =>
    \A subject \in DOMAIN subjectBreakdown :
      LET stats == subjectBreakdown[subject]
          real  == stats.total - stats.cancelled
          Dist  == stats.absenceRate * real - 100 * 100 * stats.absences
      IN  /\ real > 0 => 2 * Dist <= real /\ -2 * Dist <= real
          /\ real = 0 => stats.absenceRate = 0
          /\ 0 <= stats.absenceRate
          /\ stats.absenceRate <= 100 * 100

\* A subject with two absences in three lessons that took place (66.67
\* per cent) next to a subject whose only lesson was cancelled (0).
C16_Witness ==
  /\ SubjectsDone
  /\ \E subject \in DOMAIN subjectBreakdown :
       /\ subjectBreakdown[subject].total = 3
       /\ subjectBreakdown[subject].cancelled = 0
       /\ subjectBreakdown[subject].absences = 2
       /\ subjectBreakdown[subject].absenceRate = 6667
  /\ \E subject \in DOMAIN subjectBreakdown :
       /\ subjectBreakdown[subject].total = 1
       /\ subjectBreakdown[subject].cancelled = 1
       /\ subjectBreakdown[subject].absenceRate = 0

CodecDone == pc = "codecDone"

\* The year, month and day a day-code stands for: YYYYMMDD.
YearOf(code) == code \div 10000

MonthOf(code) == (code \div 100) % 100

DayOf(code) == code % 100

\* C18: for a valid day-code of eight digits, incrementUntisDate returns
\* the day-code of the following calendar day: the day advances by one
\* within a month, the last day of a month is followed by the first of the
\* next month, 31 December by 1 January of the next year, and 28 February
\* by 29 February exactly in leap years.
C18_IncrementIsNextDay ==
  CodecDone =>
    LET y == YearOf(dayCode)
        m == MonthOf(dayCode)
        d == DayOf(dayCode)
    IN  incremented =
          IF d < DaysInMonth(y, m) THEN y * 10000 + m * 100 + (d + 1)
          ELSE IF m < 12 THEN y * 10000 + (m + 1) * 100 + 1
          ELSE (y + 1) * 10000 + 100 + 1

\* 28 February of a leap year is followed by 29 February.
C18_Witness ==
  /\ CodecDone
  /\ dayCode = 20240228
  /\ incremented = 20240229

\* C19: for a valid day-code of eight digits, decoding it into year,
\* month and day by fixed-width decomposition and encoding these again as
\* YYYYMMDD gives the day-code back, and the string of formatUntisDate,
\* "YYYY-MM-DD", carries the same year, month and day.
C19_CodecRoundTrip ==
  CodecDone =>
    /\ recoded = dayCode
    /\ Len(formatted) = 10
    /\ formatted[5] = "-"
    /\ formatted[8] = "-"
    /\ \A i \in {1, 2, 3, 4, 6, 7, 9, 10} : IsDigit(formatted[i])
    /\ DigitsValue(SubSeq(formatted, 1, 4)) = YearOf(dayCode)
    /\ DigitsValue(SubSeq(formatted, 6, 7)) = MonthOf(dayCode)
    /\ DigitsValue(SubSeq(formatted, 9, 10)) = DayOf(dayCode)

\* A day-code whose month and day have a leading zero.
C19_Witness ==
  /\ CodecDone
  /\ dayCode = 20250105
  /\ recoded = 20250105
  /\ formatted = <<"2", "0", "2", "5", "-", "0", "1", "-", "0", "5">>

SaveReturned == pc = "saveReturned"

\* The submitted layout is more than a FREE user may save.
OverFreeLimit ==
  \/ Len(saveArg) > 5
  \/ \E i \in DOMAIN saveArg : saveArg[i] = "ABSENCE_RECOMMENDER"

\* C20: saveWidgetLayout writes the user's widgets only after it has read
\* the user's plan from the database; when the plan is FREE and the
\* submitted layout has more than 5 widgets or a premium widget type, the
\* call returns a failure with an error and no step of it changes the
\* persisted widgets.
C20_FreeLimitEnforced ==
  /\ [](SaveReturned /\ dbPlan = "FREE" /\ OverFreeLimit =>
          /\ saveResult.success = FALSE
          /\ "error" \in DOMAIN saveResult)
  /\ [][dbWidgets' # dbWidgets =>
          pc = "transaction" /\ savePlan \in {"FREE", "PREMIUM"}]_vars
  /\ [][dbPlan = "FREE" /\ OverFreeLimit => dbWidgets' = dbWidgets]_vars

\* A signed-in FREE user with two persisted widgets submits six free
\* widgets: the call has returned the limit error.
C20_Witness ==
  /\ SaveReturned
  /\ session
  /\ dbPlan = "FREE"
  /\ Len(saveArg) = 6
  /\ \A i \in DOMAIN saveArg : saveArg[i] # "ABSENCE_RECOMMENDER"
  /\ saveResult = [success |-> FALSE,
                   error |-> "Free plan is limited to 5 widgets"]
  /\ dbWidgets = <<"KPI_7DAYS", "KPI_14DAYS">>


(***************************************************************************)
(* The account: plan limits, the webhook's updates and its signature       *)
(***************************************************************************)
\* A layout a free user may have: at most 5 widgets, none premium.
WithinFreeLimit(widgets) ==
  /\ Len(widgets) <= 5
  /\ \A i \in DOMAIN widgets : widgets[i] # "ABSENCE_RECOMMENDER"

\* C21: whenever the user's plan is FREE, the widgets the user has
\* persisted are at most 5 and none is premium, and so is the list
\* getUserWidgets returns to the user while the plan is FREE.
C21_FreeUsersLimited ==
  /\ [](dbPlan = "FREE" => WithinFreeLimit(dbWidgets))
  /\ [][GetUserWidgets /\ dbPlan = "FREE"
          => WithinFreeLimit(returnedWidgets')]_vars

\* The webhook has answered 200 to an event of a type, resolved to a user.
Processed(eventType) ==
  /\ webhookPc = "responded"
  /\ response = 200
  /\ request.payload.event_type = eventType
  /\ webhookUserId # "none"

\* C22: after a verified subscription.activated event resolved to a user
\* the plan is PREMIUM and the event's subscription id is stored; after a
\* verified subscription.canceled event resolved to a user the plan is
\* FREE and paddleSubscriptionId is null; and a FREE plan always goes with
\* a null paddleSubscriptionId.
C22_WebhookSetsPlan ==
  /\ Processed("subscription.activated")
       => dbPlan = "PREMIUM" /\ dbSubscriptionId = request.payload.data.id
  /\ Processed("subscription.canceled")
       => dbPlan = "FREE" /\ dbSubscriptionId = "null"
  /\ dbPlan = "FREE" => dbSubscriptionId = "null"

\* A subscription found by its id has been cancelled after its activation.
C22_Witness ==
  /\ Processed("subscription.canceled")
  /\ request.payload.data.userId = "none"
  /\ dbCustomerId = "ctm_1"
  /\ dbPlan = "FREE"
  /\ dbSubscriptionId = "null"

\* The request in flight, or answered last, does not verify: its signature
\* is not the valid one, or no secret is configured.
Unverified ==
  /\ webhookPc # "idle"
  /\ ~(webhookSecret /\ request.signature = "valid")

\* C23: a request that does not verify is answered 401, and no step taken
\* while it is the request in flight changes the plan, paddleCustomerId or
\* paddleSubscriptionId.
C23_UnverifiedRejected ==
  /\ [](Unverified /\ webhookPc = "responded" => response = 401)
  /\ [][Unverified' => UNCHANGED <<dbPlan, dbCustomerId, dbSubscriptionId>>]_vars

\* A forged cancellation sent to a premium user has been answered 401 and
\* the user is still premium.
C23_Witness ==
  /\ webhookPc = "responded"
  /\ response = 401
  /\ webhookSecret
  /\ request.signature = "forged"
  /\ request.payload.event_type = "subscription.canceled"
  /\ request.payload.data.userId = "u1"
  /\ dbPlan = "PREMIUM"
  /\ dbSubscriptionId = "sub_1"


(***************************************************************************)
(* The trend series and the days before it                                 *)
(***************************************************************************)
\* C24: every point of calculateDailyTrend carries the totals over all
\* ledger entries dated on or before its date: totalLessons counts the
\* entries that are not cancelled, absences the absent ones, also when
\* entries are older than the 30 days of the series and the first days of
\* the series have no entry.
C24_PointsIncludeHistory ==
  TrendDone =>
    \A k \in DOMAIN dailyTrend :
      /\ dailyTrend[k].totalLessons
           = Cardinality(RealUpTo(dailyTrend[k].date))
      /\ dailyTrend[k].absences
           = Cardinality({i \in DOMAIN processed :
                            /\ processed[i].isAbsent
                            /\ DayOfISO(processed[i].date)
                                 <= DayOfISO(dailyTrend[k].date)})


(***************************************************************************)
(* The worker and the sync paths                                           *)
(***************************************************************************)
\* The cycles whose syncUser is in flight: called and not yet returned.
InFlight ==
  {c \in DOMAIN cycles :
     cycles[c].pc = "syncUser" /\ cycles[c].run.pc # "returned"}

\* C25: at no moment are two syncUser executions of the worker in flight,
\* and the executions in flight hold at most one open Untis session, also
\* when the timer starts a cycle while another is still running.
C25_OneSyncUserAtATime ==
  /\ Cardinality(InFlight) <= 1
  /\ Cardinality({c \in InFlight : cycles[c].run.untisSession = "open"}) <= 1

\* C26: a sync operation that has logged in has attempted a logout when it
\* returns, whatever later step failed, and it reports success exactly
\* when no step before the logout failed, whether or not the logout did.
C26_AlwaysLogsOut ==
  sync.pc = "returned" =>
    /\ sync.untisSession # "none" => sync.logout # "none"
    /\ sync.result = IF sync.failedAt = "none" THEN "success" ELSE "failure"


\* C27: a getUserStats call that begins after triggerManualSync has
\* returned success returns the row that sync wrote or a later one, never
\* a row read before the sync wrote, also when other getUserStats calls
\* run while the sync does.
C27_FreshAfterManualSync ==
  \A r \in DOMAIN readers :
    readers[r].pc = "returned" => readers[r].result >= readers[r].floor


\* The names of the fields of a TrendData.
TrendDataFields == {"previousValue", "changePercent", "direction"}

\* C30: for the same snapshot the two sync paths store the same absence
\* counts, and in both rows trend7Days, trend14Days and trend30Days each
\* hold the TrendData of its own window, with the fields previousValue,
\* changePercent and direction.
C30_PathsStoreTheSame ==
  DOMAIN storedRows = {"syncUser", "triggerImmediateSync"} =>
    /\ \A f \in {"absences7Days", "absences14Days", "absences30Days",
                 "absencesAllTime"} :
         storedRows.syncUser[f] = storedRows.triggerImmediateSync[f]
    /\ \A path \in DOMAIN storedRows :
         /\ DOMAIN storedRows[path].trend7Days = TrendDataFields
         /\ DOMAIN storedRows[path].trend14Days = TrendDataFields
         /\ DOMAIN storedRows[path].trend30Days = TrendDataFields
         /\ storedRows[path].trend7Days = statsData.trendChanges.last7Days
         /\ storedRows[path].trend14Days = statsData.trendChanges.last14Days
         /\ storedRows[path].trend30Days = statsData.trendChanges.last30Days


(***************************************************************************)
(* The snapshot's aggregates                                               *)
(***************************************************************************)
\* The sum of a counter over the subjects of a breakdown.
RECURSIVE SumOverSubjects(_, _, _)
SumOverSubjects(breakdown, subjects, counter) ==
  IF subjects = {} THEN 0
  ELSE LET subject == CHOOSE x \in subjects : TRUE
       IN  breakdown[subject][counter]
             + SumOverSubjects(breakdown, subjects \ {subject}, counter)

\* C28: in the snapshot calculateStats returns, the absences summed over
\* the subjects are absenceCounts.allTime and totalAbsences, total minus
\* cancelled summed over the subjects is totalRealLessons, the totals
\* summed are the ledger's length, totalAbsences <= totalRealLessons, and
\* absenceRate lies between 0 and 100 (in hundredths of a percent here).
C28_AggregatesAgree ==
  StatsDone =>
    LET breakdown == statsData.subjectBreakdown
        subjects  == DOMAIN breakdown
    IN  /\ SumOverSubjects(breakdown, subjects, "absences")
             = statsData.absenceCounts.allTime
        /\ SumOverSubjects(breakdown, subjects, "absences")
             = statsData.totalAbsences
        /\ SumOverSubjects(breakdown, subjects, "total")
             - SumOverSubjects(breakdown, subjects, "cancelled")
             = statsData.totalRealLessons
        /\ SumOverSubjects(breakdown, subjects, "total") = Len(processed)
        /\ statsData.totalAbsences <= statsData.totalRealLessons
        /\ 0 <= statsData.absenceRate
        /\ statsData.absenceRate <= 100 * 100

\* Two subjects, three lessons in the period of the absence: one of them
\* cancelled, one missed in each subject.
C28_Witness ==
  /\ StatsDone
  /\ DOMAIN statsData.subjectBreakdown = {"Math", "Physics"}
  /\ Len(processed) = 3
  /\ \A i \in DOMAIN timetable : timetable[i].startTime = 800
  /\ statsData.subjectBreakdown["Math"].cancelled = 1
  /\ statsData.subjectBreakdown["Math"].absences = 1
  /\ statsData.subjectBreakdown["Physics"].absences = 1
  /\ statsData.totalAbsences = 2
  /\ statsData.totalRealLessons = 2
  /\ statsData.absenceRate = 100 * 100


(***************************************************************************)
(* The date-range expansion                                                *)
(***************************************************************************)
\* The day-code of the calendar day after a day-code, by the calendar's
\* rules.
NextCalendarDay(code) ==
  LET y == code \div 10000
      m == (code \div 100) % 100
      d == code % 100
  IN  IF d < DaysInMonth(y, m) THEN y * 10000 + m * 100 + (d + 1)
      ELSE IF m < 12 THEN y * 10000 + (m + 1) * 100 + 1
      ELSE (y + 1) * 10000 + 100 + 1

\* The absence expanded and its end day-code.
Expanded == absences[1]

ExpandedEnd == EndDayCode(absences[1])

\* The days the loop has still to visit: from currentDate to the end day.
DaysLeft == DayOfCode(ExpandedEnd) + 1 - DayOfCode(dayCode)

\* C29: the expansion loop ends for every absence: each iteration moves
\* currentDate to the next calendar day, a greater day-code, also across
\* the end of a month and of a year, so the days left to the end
\* day-code, never negative inside the loop, go down by one with each
\* iteration and the loop is left after one iteration per day of the
\* range; an absence whose end day-code is before its start day-code
\* registers no interval.
C29_ExpansionTerminates ==
  /\ [][pc' = "while" =>
          /\ dayCode' = NextCalendarDay(dayCode)
          /\ dayCode' > dayCode
          /\ DaysLeft' = DaysLeft - 1
          /\ DaysLeft' >= 0]_vars
  /\ [](pc = "expanded" =>
          /\ dayCode > ExpandedEnd
          /\ ExpandedEnd < Expanded.startDate => DOMAIN absencesByDate = {}
          /\ ExpandedEnd >= Expanded.startDate =>
               /\ Cardinality(DOMAIN absencesByDate)
                    = DayOfCode(ExpandedEnd) - DayOfCode(Expanded.startDate) + 1
               /\ dayCode = NextCalendarDay(ExpandedEnd))

\* An absence from 30 December to 2 January has been expanded over the
\* end of the year.
C29_Witness ==
  /\ pc = "expanded"
  /\ Expanded.startDate = 20241230
  /\ ExpandedEnd = 20250102
  /\ dayCode = 20250103
  /\ Cardinality(DOMAIN absencesByDate) = 4

=============================================================================
